---- MODULE Spec2Model ----
(***************************************************************************)
(* Model of the HTTP client toolkit of ws-utils: the Fetcher (merge,       *)
(* payload assembly, dispatch loop, error classification and retry),       *)
(* HTTPError, and the URL / query helpers the Fetcher calls.               *)
(*                                                                         *)
(* Conventions                                                             *)
(*   - a JavaScript string that the code inspects character by character   *)
(*     (URLs, query strings) is a sequence of one-character strings;       *)
(*   - a JavaScript object literal is an ordered map: a sequence of        *)
(*     <<key, value>> pairs with pairwise distinct keys, in insertion      *)
(*     order (the order `for..in` and the spread operator observe);        *)
(*   - every `await` of the code is a position of the call (pc).           *)
(***************************************************************************)
EXTENDS Integers, Sequences, FiniteSets, TLC

(***************************************************************************)
(* Bounds of the model.                                                    *)
(***************************************************************************)
MaxAttempts == 3
MaxFetchers == 2
MinStatus == 100
MaxStatus == 599
MaxArrayLen == 2

(***************************************************************************)
(* Ordered maps (JavaScript objects).                                      *)
(***************************************************************************)
EmptyObj == << >>

Keys(o) == { o[i][1] : i \in DOMAIN o }

Has(o, k) == k \in Keys(o)

IndexOfKey(o, k) == CHOOSE i \in DOMAIN o : o[i][1] = k

Get(o, k) == o[IndexOfKey(o, k)][2]

\* o[k] = v: an existing key keeps its position, a new key is appended
SetKey(o, k, v) ==
    IF Has(o, k)
    THEN [ i \in DOMAIN o |-> IF o[i][1] = k THEN <<k, v>> ELSE o[i] ]
    ELSE Append(o, <<k, v>>)

RECURSIVE SpreadFrom(_, _, _)
SpreadFrom(a, b, i) ==
    IF i > Len(b) THEN a
    ELSE SpreadFrom(SetKey(a, b[i][1], b[i][2]), b, i + 1)

\* { ...a, ...b }
Spread(a, b) == SpreadFrom(a, b, 1)

\* the content of an object, irrespective of key order (deep equality of
\* one level, the nested values being compared as they are)
Content(o) == [ k \in Keys(o) |-> Get(o, k) ]

(***************************************************************************)
(* Strings as character sequences.                                         *)
(***************************************************************************)
RECURSIVE StripTrailing(_, _)
\* part.replace(new RegExp(`${sep}+$`), '')
StripTrailing(s, ch) ==
    IF Len(s) > 0 /\ s[Len(s)] = ch
    THEN StripTrailing(SubSeq(s, 1, Len(s) - 1), ch)
    ELSE s

RECURSIVE StripLeading(_, _)
\* part.replace(new RegExp(`^${sep}+`), '')
StripLeading(s, ch) ==
    IF Len(s) > 0 /\ s[1] = ch
    THEN StripLeading(SubSeq(s, 2, Len(s)), ch)
    ELSE s

EndsWith(s, ch) == Len(s) > 0 /\ s[Len(s)] = ch

RECURSIVE JoinFrom(_, _, _)
JoinFrom(parts, ch, i) ==
    IF i > Len(parts) THEN << >>
    ELSE IF i = Len(parts) THEN parts[i]
    ELSE parts[i] \o <<ch>> \o JoinFrom(parts, ch, i + 1)

\* parts.join(sep)
Join(parts, ch) == JoinFrom(parts, ch, 1)

(***************************************************************************)
(* urlJoin(parts, {sep, trailingSlash}); sep is one character, and         *)
(* trailingSlash is "true", "false" or "undefined" (a key given the value  *)
(* undefined overrides the default and is falsy).                          *)
(***************************************************************************)
Truthy(b) == b = "true"

\* lines 23-33: the separator is stripped off the inner edges of the parts
SanitizeParts(parts, sep) ==
    [ index \in 1..Len(parts) |->
        IF index = 1 THEN StripTrailing(parts[index], sep)
        ELSE IF index = Len(parts) THEN StripLeading(parts[index], sep)
        ELSE StripTrailing(StripLeading(parts[index], sep), sep) ]

\* lines 37-45
EnforceTrailingSlash(result, sep, trailingSlash) ==
    IF Truthy(trailingSlash)
    THEN IF ~EndsWith(result, sep) THEN result \o <<sep>> ELSE result
    ELSE IF EndsWith(result, sep)
         THEN SubSeq(result, 1, Len(result) - 1)
         ELSE result

urlJoin(parts, sep, trailingSlash) ==
    EnforceTrailingSlash(
        Join(SanitizeParts(SelectSeq(parts, LAMBDA v : Len(v) > 0), sep), sep),
        sep, trailingSlash)

\* line 9-12
defaultUrlJoinOptions == << <<"sep", "/">>, <<"trailingSlash", "true">> >>

\* urlJoin(parts, options), options being an object with the optional keys
\* sep and trailingSlash (line 21)
urlJoinWith(parts, options) ==
    urlJoin(parts,
            Get(Spread(defaultUrlJoinOptions, options), "sep"),
            Get(Spread(defaultUrlJoinOptions, options), "trailingSlash"))

(***************************************************************************)
(* Query codec.  A query-parameter value is a pair <<type, data>>:         *)
(*   <<"undefined", 0>>, <<"null", 0>>, <<"string", chars>>,               *)
(*   <<"number", n>>, <<"boolean", "true" | "false">>,                     *)
(*   <<"array", sequence of values>>, <<"date", Date>>, <<"object", 0>> (a *)
(*   plain object, for which no built-in serializer exists).               *)
(* A computation that may throw yields <<"ok", value>> or <<"throw", msg>>.*)
(***************************************************************************)
Undefined == <<"undefined", 0>>
Null == <<"null", 0>>
StrVal(chars) == <<"string", chars>>

Ok(v) == <<"ok", v>>
Throw(msg) == <<"throw", msg>>
IsOk(r) == r[1] = "ok"

Digit(d) == <<"0", "1", "2", "3", "4", "5", "6", "7", "8", "9">>[d + 1]

RECURSIVE NatToStr(_)
NatToStr(n) == IF n < 10 THEN <<Digit(n)>> ELSE NatToStr(n \div 10) \o <<Digit(n % 10)>>

\* Number.prototype.toString for integers
NumToStr(n) == IF n < 0 THEN <<"-">> \o NatToStr(0 - n) ELSE NatToStr(n)

HexDigit(d) ==
    <<"0", "1", "2", "3", "4", "5", "6", "7", "8", "9", "a", "b", "c", "d", "e", "f">>[d + 1]

RECURSIVE NatToHex(_)
\* Number.prototype.toString(16) for naturals
NatToHex(n) == IF n < 16 THEN <<HexDigit(n)>> ELSE NatToHex(n \div 16) \o <<HexDigit(n % 16)>>

\* String(n).padStart(2, '0')
Pad2(n) == IF n < 10 THEN <<"0">> \o NatToStr(n) ELSE NatToStr(n)

\* A Date is <<"date", [year, month, date, midnight, iso]>>: getFullYear(),
\* getMonth(), getDate(), whether the local time of day is 00:00:00.000, and
\* toISOString().
DateToStr(d) ==
    IF d.midnight
    THEN NatToStr(d.year) \o <<"-">> \o Pad2(d.month + 1) \o <<"-">> \o Pad2(d.date)
    ELSE d.iso

\* the built-in serializers, in their order
defaultSerializers == <<"string", "number", "boolean", "null", "date">>

\* serializers a caller may pass in options.serializers:
\*   hexNumber   numbers, in base 16      numberHash  numbers, as "#"
\*   objectTag   plain objects, as "obj"  stringStar  strings, as "*"
UserSerializers == {"hexNumber", "numberHash", "objectTag", "stringStar"}

\* serializer.test(value)
SerializerTest(name, value) ==
    CASE name = "string" -> value[1] = "string"
      [] name = "number" -> value[1] = "number"
      [] name = "boolean" -> value[1] = "boolean"
      [] name = "null" -> value[1] \in {"null", "undefined"}
      [] name = "date" -> value[1] = "date"
      [] name = "hexNumber" -> value[1] = "number"
      [] name = "numberHash" -> value[1] = "number"
      [] name = "objectTag" -> value[1] = "object"
      [] name = "stringStar" -> value[1] = "string"
      [] OTHER -> FALSE

\* serializer.serialize(value)
SerializerSerialize(name, value) ==
    CASE name = "string" -> value[2]
      [] name = "number" -> NumToStr(value[2])
      [] name = "boolean" -> IF value[2] = "true" THEN <<"t", "r", "u", "e">>
                             ELSE <<"f", "a", "l", "s", "e">>
      [] name = "date" -> DateToStr(value[2])
      [] name = "hexNumber" -> NatToHex(value[2])
      [] name = "numberHash" -> <<"#">>
      [] name = "objectTag" -> <<"o", "b", "j">>
      [] name = "stringStar" -> <<"*">>
      [] OTHER -> <<"n", "u", "l", "l">>

RECURSIVE SerializeFrom(_, _, _)
SerializeFrom(value, serializers, i) ==
    IF i > Len(serializers) THEN Throw("No serializer found")
    ELSE IF SerializerTest(serializers[i], value)
         THEN StrVal(SerializerSerialize(serializers[i], value))
         ELSE SerializeFrom(value, serializers, i + 1)

\* serializeQueryParam: Undefined, <<"string", chars>> or <<"throw", msg>>
serializeQueryParam(value, serializers) ==
    IF value[1] = "undefined" THEN Undefined
    ELSE SerializeFrom(value, serializers, 1)

\* QueryParamsEncodingOptions; "absent" stands for a missing key
DefaultQueryOptions == [serializers |-> << >>, arrayFormat |-> "absent", skipNull |-> "absent"]

SkipNullOf(options) == IF options.skipNull = "absent" THEN "false" ELSE options.skipNull

ArrayFormatOf(options) ==
    IF options.arrayFormat = "absent" THEN "repeat" ELSE options.arrayFormat

\* FormatArray falling back to repeat for an arrayFormat it does not know
FormatArrayFallback(key, processedValues, arrayFormat) ==
    IF Len(processedValues) = 0 THEN Ok(<< >>)
    ELSE IF arrayFormat = "comma"
         THEN Ok(<< <<key, Join(processedValues, ",")>> >>)
    ELSE IF arrayFormat = "bracket"
         THEN Ok([ i \in DOMAIN processedValues |->
                     <<key \o <<"[", "]">>, processedValues[i]>> ])
    ELSE Ok([ i \in DOMAIN processedValues |-> <<key, processedValues[i]>> ])

\* lines 194-208, processedValues being the serialized elements that are kept
FormatArray(key, processedValues, arrayFormat) ==
    IF Len(processedValues) = 0 THEN Ok(<< >>)
    ELSE IF arrayFormat = "repeat"
         THEN Ok([ i \in DOMAIN processedValues |-> <<key, processedValues[i]>> ])
    ELSE IF arrayFormat = "comma"
         THEN Ok(<< <<key, Join(processedValues, ",")>> >>)
    ELSE IF arrayFormat = "bracket"
         THEN Ok([ i \in DOMAIN processedValues |->
                     <<key \o <<"[", "]">>, processedValues[i]>> ])
    ELSE Throw("Unsupported arrayFormat")

\* lines 190-193: mapped is the array with every element serialized; the
\* first element that throws ends the map
FlattenArray(key, mapped, arrayFormat) ==
    IF \E i \in DOMAIN mapped : mapped[i][1] = "throw"
    THEN mapped[CHOOSE i \in DOMAIN mapped :
                    /\ mapped[i][1] = "throw"
                    /\ \A j \in 1..(i - 1) : mapped[j][1] # "throw"]
    ELSE FormatArray(key,
                     [ i \in DOMAIN SelectSeq(mapped, LAMBDA v : v[1] # "undefined") |->
                         SelectSeq(mapped, LAMBDA v : v[1] # "undefined")[i][2] ],
                     arrayFormat)

\* lines 210-213
FlattenScalar(key, processedValue) ==
    IF processedValue[1] = "throw" THEN processedValue
    ELSE IF processedValue[1] # "undefined" THEN Ok(<< <<key, processedValue[2]>> >>)
    ELSE Ok(<< >>)

\* FlattenKey skipping null whatever skipNull says
FlattenKeyNullSkipped(key, value, serializers, options) ==
    IF value[1] = "undefined" \/ value[1] = "null"
    THEN Ok(<< >>)
    ELSE IF value[1] = "array"
    THEN FlattenArray(key,
                      [ i \in DOMAIN value[2] |-> serializeQueryParam(value[2][i], serializers) ],
                      ArrayFormatOf(options))
    ELSE FlattenScalar(key, serializeQueryParam(value, serializers))

\* the entries one key contributes: <<"ok", entries>> or <<"throw", msg>>
FlattenKey(key, value, serializers, options) ==
    IF value[1] = "undefined" \/ (value[1] = "null" /\ Truthy(SkipNullOf(options)))
    THEN Ok(<< >>)
    ELSE IF value[1] = "array"
    THEN FlattenArray(key,
                      [ i \in DOMAIN value[2] |-> serializeQueryParam(value[2][i], serializers) ],
                      ArrayFormatOf(options))
    ELSE FlattenScalar(key, serializeQueryParam(value, serializers))

RECURSIVE FlattenFrom(_, _, _, _, _)
RECURSIVE FlattenNext(_, _, _, _, _, _)
\* the loop over the keys, from the i-th on
FlattenFrom(params, serializers, options, i, entries) ==
    IF i > Len(params) THEN Ok(entries)
    ELSE FlattenNext(params, serializers, options, i, entries,
                     FlattenKey(params[i][1], params[i][2], serializers, options))

FlattenNext(params, serializers, options, i, entries, r) ==
    IF IsOk(r) THEN FlattenFrom(params, serializers, options, i + 1, entries \o r[2])
    ELSE r

\* flattenParams(params, serializers, options)
flattenParams(params, serializers, options) ==
    FlattenFrom(params, serializers, options, 1, << >>)

\* application/x-www-form-urlencoded serialisation of one character
EncodeChar(ch) ==
    CASE ch = " " -> <<"+">>
      [] ch = "," -> <<"%", "2", "C">>
      [] ch = "[" -> <<"%", "5", "B">>
      [] ch = "]" -> <<"%", "5", "D">>
      [] ch = "&" -> <<"%", "2", "6">>
      [] ch = "=" -> <<"%", "3", "D">>
      [] ch = "/" -> <<"%", "2", "F">>
      [] ch = ":" -> <<"%", "3", "A">>
      [] ch = "?" -> <<"%", "3", "F">>
      [] ch = "+" -> <<"%", "2", "B">>
      [] ch = "%" -> <<"%", "2", "5">>
      [] ch = "#" -> <<"%", "2", "3">>
      [] OTHER -> <<ch>>

RECURSIVE EncodeStr(_)
EncodeStr(s) == IF Len(s) = 0 THEN << >> ELSE EncodeChar(s[1]) \o EncodeStr(Tail(s))

\* URLSearchParams.prototype.toString() of the appended entries
SearchParamsToString(entries) ==
    Join([ i \in DOMAIN entries |-> EncodeStr(entries[i][1]) \o <<"=">> \o EncodeStr(entries[i][2]) ], "&")

\* lines 86-93
EncodeEntries(entries) ==
    IF IsOk(entries) THEN Ok(SearchParamsToString(entries[2])) ELSE entries

\* encodeQueryParams consulting the built-in serializers first
encodeQueryParamsDefaultsFirst(params, options) ==
    EncodeEntries(flattenParams(params, defaultSerializers \o options.serializers, options))

\* encodeQueryParams(params, options): <<"ok", chars>> or <<"throw", msg>>
encodeQueryParams(params, options) ==
    EncodeEntries(flattenParams(params, options.serializers \o defaultSerializers, options))

(***************************************************************************)
(* URL parsing as far as the query helpers use it (the WHATWG URL parser   *)
(* restricted to http(s) URLs without credentials, port or dot segments).  *)
(***************************************************************************)
HasPrefix(s, p) == Len(s) >= Len(p) /\ SubSeq(s, 1, Len(p)) = p

\* index of the first occurrence of one of the characters, 0 if none
FirstIndexOf(s, chs) ==
    IF \E i \in DOMAIN s : s[i] \in chs
    THEN CHOOSE i \in DOMAIN s : s[i] \in chs /\ \A j \in 1..(i - 1) : s[j] \notin chs
    ELSE 0

RECURSIVE Split(_, _)
\* s.split(ch)
Split(s, ch) ==
    LET i == FirstIndexOf(s, {ch})
    IN  IF i = 0 THEN <<s>>
        ELSE <<SubSeq(s, 1, i - 1)>> \o Split(SubSeq(s, i + 1, Len(s)), ch)

HttpScheme == <<"h", "t", "t", "p", ":", "/", "/">>
HttpsScheme == <<"h", "t", "t", "p", "s", ":", "/", "/">>

\* new URL(u) succeeds without a base
IsAbsoluteUrl(u) == HasPrefix(u, HttpScheme) \/ HasPrefix(u, HttpsScheme)

\* s up to the first of the characters (all of s if there is none)
Before(s, chs) ==
    IF FirstIndexOf(s, chs) = 0 THEN s ELSE SubSeq(s, 1, FirstIndexOf(s, chs) - 1)

\* s after the first of the characters (nothing if there is none)
After(s, chs) ==
    IF FirstIndexOf(s, chs) = 0 THEN << >> ELSE SubSeq(s, FirstIndexOf(s, chs) + 1, Len(s))

\* the part of u after the first "?", up to a "#"
UrlSearch(u) == After(Before(u, {"#"}), {"?"})

\* the length of the scheme of an absolute http(s) URL
SchemeLen(u) == IF HasPrefix(u, HttpsScheme) THEN Len(HttpsScheme) ELSE Len(HttpScheme)

\* host and path: a URL without a path has the path "/"
WithRootPath(hostPath) ==
    IF FirstIndexOf(hostPath, {"/"}) = 0 THEN hostPath \o <<"/">> ELSE hostPath

\* urlObj.origin + urlObj.pathname of an absolute http(s) URL
UrlOriginAndPath(u) ==
    SubSeq(u, 1, SchemeLen(u))
        \o WithRootPath(Before(SubSeq(u, SchemeLen(u) + 1, Len(u)), {"?", "#"}))

HexChar(a, b) ==
    CASE <<a, b>> = <<"2", "C">> -> <<",">>
      [] <<a, b>> = <<"5", "B">> -> <<"[">>
      [] <<a, b>> = <<"5", "D">> -> <<"]">>
      [] <<a, b>> = <<"2", "6">> -> <<"&">>
      [] <<a, b>> = <<"3", "D">> -> <<"=">>
      [] <<a, b>> = <<"2", "F">> -> <<"/">>
      [] <<a, b>> = <<"3", "A">> -> <<":">>
      [] <<a, b>> = <<"3", "F">> -> <<"?">>
      [] <<a, b>> = <<"2", "B">> -> <<"+">>
      [] <<a, b>> = <<"2", "5">> -> <<"%">>
      [] <<a, b>> = <<"2", "3">> -> <<"#">>
      [] OTHER -> <<"%", a, b>>

RECURSIVE DecodeStr(_)
\* application/x-www-form-urlencoded decoding of a name or value
DecodeStr(s) ==
    IF Len(s) = 0 THEN << >>
    ELSE IF s[1] = "+" THEN <<" ">> \o DecodeStr(Tail(s))
    ELSE IF s[1] = "%" /\ Len(s) >= 3 THEN HexChar(s[2], s[3]) \o DecodeStr(SubSeq(s, 4, Len(s)))
    ELSE <<s[1]>> \o DecodeStr(Tail(s))

\* one name=value piece of a query string, decoded
PieceEntry(piece) ==
    IF FirstIndexOf(piece, {"="}) = 0 THEN <<DecodeStr(piece), << >> >>
    ELSE <<DecodeStr(Before(piece, {"="})), DecodeStr(After(piece, {"="}))>>

PieceEntries(pieces) == [ i \in DOMAIN pieces |-> PieceEntry(pieces[i]) ]

\* urlObj.searchParams.entries()
SearchParamsEntries(u) ==
    PieceEntries(SelectSeq(Split(UrlSearch(u), "&"), LAMBDA x : Len(x) > 0))

\* extractQueryParams(url): Object.fromEntries keeps, for every key, the
\* position of its first occurrence and the value of its last
extractQueryParams(url) == Spread(EmptyObj, SearchParamsEntries(url))

\* existing params enter the merge as string values
AsStringValues(o) == [ i \in DOMAIN o |-> <<o[i][1], StrVal(o[i][2])>> ]

\* lines 126-130
AppendQuery(url, encodedParams) ==
    IF ~IsOk(encodedParams) THEN encodedParams
    ELSE IF Len(encodedParams[2]) = 0 THEN Ok(url)
    ELSE Ok(url \o <<"?">> \o encodedParams[2])

\* InsertInto parsing baseUrl against a base, as extractQueryParams does
InsertIntoAgainstBase(baseUrl, existingParams, params, options) ==
    AppendQuery(
        IF Len(existingParams) > 0 THEN Before(baseUrl, {"?", "#"}) ELSE baseUrl,
        encodeQueryParams(
            IF Len(existingParams) > 0
            THEN Spread(AsStringValues(existingParams), params)
            ELSE params,
            options))

\* lines 116-130: `new URL(baseUrl)` throws for a URL that is not absolute
InsertInto(baseUrl, existingParams, params, options) ==
    IF Len(existingParams) > 0 /\ ~IsAbsoluteUrl(baseUrl) THEN Throw("Invalid URL")
    ELSE AppendQuery(
             IF Len(existingParams) > 0 THEN UrlOriginAndPath(baseUrl) ELSE baseUrl,
             encodeQueryParams(
                 IF Len(existingParams) > 0
                 THEN Spread(AsStringValues(existingParams), params)
                 ELSE params,
                 options))

\* insertQueryParams(baseUrl, payload, options); payload is
\* [present |-> BOOLEAN, obj |-> object]; <<"ok", chars>> or <<"throw", msg>>
insertQueryParams(baseUrl, payload, options) ==
    IF ~payload.present THEN Ok(baseUrl)
    ELSE InsertInto(baseUrl, extractQueryParams(baseUrl), payload.obj, options)

(***************************************************************************)
(* generatePath(originalPath, params).  params is an object whose values   *)
(* are <<"number", n>>, <<"string", chars>>, Null or Undefined.            *)
(***************************************************************************)
\* the characters of the class [\w-]
ParamChars ==
    { "a", "b", "c", "d", "e", "f", "g", "h", "i", "j", "k", "l", "m",
      "n", "o", "p", "q", "r", "s", "t", "u", "v", "w", "x", "y", "z",
      "A", "B", "C", "D", "E", "F", "G", "H", "I", "J", "K", "L", "M",
      "N", "O", "P", "Q", "R", "S", "T", "U", "V", "W", "X", "Y", "Z",
      "0", "1", "2", "3", "4", "5", "6", "7", "8", "9", "_", "-" }

\* path.split(/\/+/): the pieces between the runs of "/"
SplitRuns(pieces) ==
    [ i \in DOMAIN SelectSeq([ j \in DOMAIN pieces |-> <<j, pieces[j]>> ],
                             LAMBDA x : x[1] = 1 \/ x[1] = Len(pieces) \/ x[2] # << >>) |->
        SelectSeq([ j \in DOMAIN pieces |-> <<j, pieces[j]>> ],
                  LAMBDA x : x[1] = 1 \/ x[1] = Len(pieces) \/ x[2] # << >>)[i][2] ]

\* segment.replace(/\?$/g, '')
StripOptionalMarker(segment) ==
    IF EndsWith(segment, "?") THEN SubSeq(segment, 1, Len(segment) - 1) ELSE segment

\* segment.match(/^:([\w-]+)(\??)$/)
KeyMatch(segment) ==
    /\ Len(segment) >= 2
    /\ segment[1] = ":"
    /\ Len(StripOptionalMarker(Tail(segment))) >= 1
    /\ \A i \in DOMAIN StripOptionalMarker(Tail(segment)) :
           StripOptionalMarker(Tail(segment))[i] \in ParamChars

\* the groups of the match: key and optional
KeyOf(segment) == StripOptionalMarker(Tail(segment))

OptionalOf(segment) == EndsWith(segment, "?")

\* line 145
stringify(p) ==
    CASE p[1] \in {"null", "undefined"} -> << >>
      [] p[1] = "string" -> p[2]
      [] p[1] = "number" -> NumToStr(p[2])

\* lines 150-155 without the invariant of line 154
InterpolateUnchecked(segment, param) == Ok(stringify(param))

\* lines 150-155: the segment of a placeholder, param being params[key]
Interpolate(segment, param) ==
    IF OptionalOf(segment) \/ param[1] \notin {"null", "undefined"}
    THEN Ok(stringify(param))
    ELSE Throw(<<"Missing param", KeyOf(segment)>>)

\* lines 149-159: what map yields for one segment
MapSegment(segment, params) ==
    IF KeyMatch(segment)
    THEN Interpolate(segment, IF Has(params, KeyOf(segment))
                              THEN Get(params, KeyOf(segment))
                              ELSE Undefined)
    ELSE Ok(StripOptionalMarker(segment))

\* lines 147-163 once every segment is mapped: the first throw of the map
\* ends the call
AssemblePath(prefix, mapped) ==
    IF \E i \in DOMAIN mapped : ~IsOk(mapped[i])
    THEN mapped[CHOOSE i \in DOMAIN mapped :
                    ~IsOk(mapped[i]) /\ \A j \in 1..(i - 1) : IsOk(mapped[j])]
    ELSE Ok(prefix \o Join([ i \in DOMAIN SelectSeq(mapped, LAMBDA r : r[2] # << >>) |->
                               SelectSeq(mapped, LAMBDA r : r[2] # << >>)[i][2] ], "/"))

MapSegments(segments, params) ==
    [ i \in DOMAIN segments |-> MapSegment(segments[i], params) ]

\* generatePath(originalPath, params): <<"ok", chars>> or <<"throw", msg>>
generatePath(originalPath, params) ==
    AssemblePath(IF HasPrefix(originalPath, <<"/">>) THEN <<"/">> ELSE << >>,
                 MapSegments(SplitRuns(Split(originalPath, "/")), params))

(***************************************************************************)
(* routes(hierarchy).  A hierarchy is an object of nodes                   *)
(* [path, hasChildren, children]: children is a hierarchy, empty when the  *)
(* node has no children property.  The result is an object of routes       *)
(* [str, path, key, parentKey], str being the string the route is.         *)
(***************************************************************************)
\* line 113
CurrentKey(parentKey, key) ==
    IF parentKey # << >> THEN parentKey \o <<"_">> \o key ELSE key

\* lines 122-129: the route of a node
Route(absPath, currentKey, parentKey) ==
    [str |-> absPath, path |-> absPath, key |-> currentKey, parentKey |-> parentKey]

\* lines 113-130: one step of the reduce, for the entry [key, value];
\* accumulated is what the children of the node gave
ReduceStep(acc, key, value, parentPath, parentKey, accumulated) ==
    Spread(IF value.hasChildren THEN Spread(acc, accumulated) ELSE acc,
           << <<CurrentKey(parentKey, key),
                Route(urlJoinWith(<<parentPath, value.path>>, EmptyObj),
                      CurrentKey(parentKey, key), parentKey)>> >>)

RECURSIVE ReduceEntries(_, _, _, _)
\* lines 112-131: the reduce over the first n entries of Object.entries(obj)
ReduceEntries(obj, parentPath, parentKey, n) ==
    IF n = 0 THEN EmptyObj
    ELSE ReduceStep(ReduceEntries(obj, parentPath, parentKey, n - 1),
                    obj[n][1], obj[n][2], parentPath, parentKey,
                    IF obj[n][2].hasChildren
                    THEN ReduceEntries(obj[n][2].children,
                                       urlJoinWith(<<parentPath, obj[n][2].path>>, EmptyObj),
                                       CurrentKey(parentKey, obj[n][1]),
                                       Len(obj[n][2].children))
                    ELSE EmptyObj)

\* lines 107-111
accumulateRoutes(obj, parentPath, parentKey) ==
    ReduceEntries(obj, parentPath, parentKey, Len(obj))

\* routes(hierarchy), without the generatePath it binds to every route
routes(hierarchy) == accumulateRoutes(hierarchy, << >>, << >>)

(***************************************************************************)
(* HTTPError.  options is [hasBody |-> BOOLEAN, body |-> string,           *)
(* statusCode |-> integer]; an error value is <<class, fields>>.           *)
(***************************************************************************)
\* ErrorTypeOf with the conventional boundary, `>= 500`
ErrorTypeOfFrom500(statusCode) == IF statusCode >= 500 THEN "SERVER" ELSE "CLIENT"

\* line 45
ErrorTypeOf(statusCode) == IF statusCode > 500 THEN "SERVER" ELSE "CLIENT"

HTTPError(message, options) ==
    <<"HTTPError",
      [message |-> message,
       statusCode |-> options.statusCode,
       body |-> IF options.hasBody THEN options.body ELSE "",
       type |-> ErrorTypeOf(options.statusCode)]>>

(***************************************************************************)
(* Fetcher.  A FetcherConfig is an object with the optional keys           *)
(*   debug, trailingSlash : "true" | "false" | "undefined"                 *)
(*   baseUrl : chars          headers, fetchParams, queryParams : objects  *)
(*   queryParamsOptions : QueryParamsEncodingOptions                       *)
(*   processPayload, processResponse, errorHandler : "fn" (the hook is a   *)
(*   user function; what it does is an input of the step that awaits it).  *)
(***************************************************************************)
VARIABLES
    fetchers,   \* Fetcher instances: identity |-> this.config
    console,    \* lines written by console.log in the constructor
    overrides,  \* the override() calls made: receiver, function, the config the
                \* function returned, the instance override() returned
    calls,      \* invocations of Fetcher.fetch: slot |-> frame of the call
    errs,       \* the HTTPError last constructed directly, with its arguments
    evals,      \* the call of a URL or query helper last made: its arguments
                \* and what it returned or threw
    request     \* a Request builder of the factory: its fields, the state it
                \* had at build(), and one invocation of the callable built

vars == <<fetchers, console, overrides, calls, errs, evals, request>>

Calls == {1, 2}

DefaultFetcherConfig == << <<"trailingSlash", "true">> >>

\* config[key], undefined when the key is missing
ConfigGet(config, key, undef) == IF Has(config, key) THEN Get(config, key) ELSE undef

\* a hook or flag of the config is set to a truthy value
ConfigTruthy(config, key) ==
    Has(config, key) /\ Get(config, key) \notin {"false", "undefined"}

\* the config the constructor stores
\* the constructor keeping the given config as it is, without the defaults
NewFetcherConfigNoDefaults(config) == config

NewFetcherConfig(config) == Spread(DefaultFetcherConfig, config)

\* what the constructor logs
NewFetcherLog(config) ==
    IF ConfigTruthy(NewFetcherConfig(config), "debug")
    THEN << <<"Creating new fetcher", NewFetcherConfig(config)>> >>
    ELSE << >>

NoError == <<"none", 0>>
NoResponse == [status |-> 0, body |-> ""]
NoResult == <<"pending", 0>>
Method(m) == <<"method", m>>

\* The frame of a call that has not started.  Besides the parameters and the
\* local variables of fetch, a frame keeps what the call did so far:
\*   escaped     the retry callback has been handed to the error handler
\*   log         the lines the call wrote with console.log
\*   dispatched  the <<url, init>> of every call of the network primitive
\*   handled     the <<err, attempt>> of every invocation of errorHandler
\*   answers     how each of these invocations ended: what it returned (or
\*               "throw", with the error thrown) and whether retry() had
\*               been invoked since the attempt began
\*   payloadHookCalls, responseHookCalls, hookResult
\*               the invocations of processPayload and processResponse and
\*               what the latter returned
IdleCall ==
    [pc |-> "idle", this |-> 0, url |-> << >>, payload |-> << >>,
     queryParams |-> << >>, headers |-> << >>,
     processedUrl |-> << >>, processedPayload |-> << >>,
     retry |-> FALSE, attempt |-> 0, error |-> NoError,
     response |-> NoResponse, result |-> NoResult,
     escaped |-> FALSE, log |-> << >>,
     dispatched |-> << >>, handled |-> << >>, answers |-> << >>,
     payloadHookCalls |-> 0, responseHookCalls |-> 0, hookResult |-> NoResult]

\* the call has settled: its promise is resolved or rejected
Settled(frame) == frame.pc \in {"resolved", "rejected"}

Reject(frame, e) == [frame EXCEPT !.pc = "rejected", !.result = e]

Resolve(frame, v) == [frame EXCEPT !.pc = "resolved", !.result = <<"value", v>>]

\* response.ok
ResponseOk(response) == response.status >= 200 /\ response.status <= 299

\* LoopHead without `attempt++`
LoopHeadAttemptStuck(frame) ==
    IF frame.retry
    THEN [frame EXCEPT !.retry = FALSE,
                       !.pc = "fetch",
                       !.dispatched = Append(@, <<frame.processedUrl, frame.processedPayload>>)]
    ELSE Reject(frame, frame.error)

\* LoopHead with the attempt counter kept on the Fetcher instance, where the
\* code has `let attempt` inside fetch: every call in flight counts on it
LoopHeadSharedAttempt(frame) ==
    IF frame.retry
    THEN [frame EXCEPT !.attempt = calls[1].attempt + calls[2].attempt + 1,
                       !.retry = FALSE,
                       !.pc = "fetch",
                       !.dispatched = Append(@, <<frame.processedUrl, frame.processedPayload>>)]
    ELSE Reject(frame, frame.error)

\* LoopHead whose exit awaits a promise that nobody settles, where the code
\* has `throw error`
LoopHeadPending(frame) ==
    IF frame.retry
    THEN [frame EXCEPT !.attempt = @ + 1,
                       !.retry = FALSE,
                       !.pc = "fetch",
                       !.dispatched = Append(@, <<frame.processedUrl, frame.processedPayload>>)]
    ELSE [frame EXCEPT !.pc = "pending"]

\* LoopHead with a built-in limit: `while (retry && attempt < 2)`
LoopHeadBounded(frame) ==
    IF frame.retry /\ frame.attempt < 2
    THEN [frame EXCEPT !.attempt = @ + 1,
                       !.retry = FALSE,
                       !.pc = "fetch",
                       !.dispatched = Append(@, <<frame.processedUrl, frame.processedPayload>>)]
    ELSE Reject(frame, frame.error)

\* the head of `while (retry)`: one more attempt, or `throw error`
LoopHead(frame) ==
    IF frame.retry
    THEN [frame EXCEPT !.attempt = @ + 1,
                       !.retry = FALSE,
                       !.pc = "fetch",
                       !.dispatched = Append(@, <<frame.processedUrl, frame.processedPayload>>)]
    ELSE Reject(frame, frame.error)

\* lines 427-429
LogPayload(frame, config) ==
    IF ConfigTruthy(config, "debug")
    THEN [frame EXCEPT !.log = Append(@, <<"final payload",
                                          ConfigGet(frame.processedPayload, "method", Undefined),
                                          frame.processedUrl, frame.processedPayload>>)]
    ELSE frame

\* lines 427-442: the debug line, the loop variables, the first attempt
EnterLoop(frame, config) ==
    LoopHead([LogPayload(frame, config) EXCEPT
                 !.retry = TRUE,
                 !.attempt = 0,
                 !.error = HTTPError("Unknown HTTP error",
                               [hasBody |-> FALSE, body |-> "", statusCode |-> 500])])

\* MergeKey with the operands swapped: the instance level wins
MergeKeyInstanceWins(config, payload, key) ==
    Spread(ConfigGet(payload, key, EmptyObj), ConfigGet(config, key, EmptyObj))

\* { ...this.config.headers, ...payload.headers } and the like
MergeKey(config, payload, key) ==
    Spread(ConfigGet(config, key, EmptyObj), ConfigGet(payload, key, EmptyObj))

\* lines 416-422
AssemblePayload(config, payload, headers) ==
    SetKey(SetKey(SetKey(MergeKey(config, payload, "fetchParams"),
                         "headers", headers),
                  "body", ConfigGet(payload, "body", Undefined)),
           "method", ConfigGet(payload, "method", Undefined))

\* lines 410-414
ProcessUrl(config, url, queryParams) ==
    insertQueryParams(
        urlJoin(<<ConfigGet(config, "baseUrl", << >>), url>>, "/",
                ConfigGet(config, "trailingSlash", "undefined")),
        [present |-> TRUE, obj |-> queryParams],
        ConfigGet(config, "queryParamsOptions", DefaultQueryOptions))

\* lines 424-426: the hook is awaited, or the loop is entered at once
AwaitProcessPayload(config, frame) ==
    IF ConfigTruthy(config, "processPayload")
    THEN [frame EXCEPT !.pc = "processPayload", !.payloadHookCalls = @ + 1]
    ELSE EnterLoop(frame, config)

\* lines 410-422 once the URL is computed: a throw of the URL helpers
\* rejects the call
WithProcessedUrl(config, frame, processedUrl) ==
    IF ~IsOk(processedUrl) THEN Reject(frame, <<"Error", processedUrl[2]>>)
    ELSE AwaitProcessPayload(config,
             [frame EXCEPT !.processedUrl = processedUrl[2],
                           !.processedPayload =
                               AssemblePayload(config, frame.payload, frame.headers)])

\* lines 407-408
WithMerged(config, frame) ==
    WithProcessedUrl(config, frame, ProcessUrl(config, frame.url, frame.queryParams))

FetchPayload(this, config, url, payload) ==
    WithMerged(config,
        [IdleCall EXCEPT !.this = this, !.url = url, !.payload = payload,
                         !.queryParams = MergeKey(config, payload, "queryParams"),
                         !.headers = MergeKey(config, payload, "headers")])

\* fetch(url, payload) up to its first await; payloadArg is
\* [present |-> BOOLEAN, obj |-> object], the default being { method: 'GET' }
FetchBegin(this, config, url, payloadArg) ==
    FetchPayload(this, config, url,
        IF payloadArg.present THEN payloadArg.obj ELSE << <<"method", Method("GET")>> >>)

\* line 425 resumes: the hook's return value replaces the payload in full
AfterProcessPayload(frame, config, newPayload) ==
    EnterLoop([frame EXCEPT !.processedPayload = newPayload], config)

\* AfterFetch taking every status below 400 for a success
AfterFetchBelow400(frame, config, response) ==
    IF response.status < 400
    THEN IF ConfigTruthy(config, "processResponse")
         THEN [frame EXCEPT !.response = response, !.pc = "processResponse",
                            !.responseHookCalls = @ + 1]
         ELSE Resolve([frame EXCEPT !.response = response], <<"response", response>>)
    ELSE [frame EXCEPT !.response = response, !.pc = "text"]

\* lines 445-452 and the call of response.text() on line 456
AfterFetch(frame, config, response) ==
    LET got == [frame EXCEPT !.response = response]
    IN  IF ResponseOk(response)
        THEN IF ConfigTruthy(config, "processResponse")
             THEN [got EXCEPT !.pc = "processResponse", !.responseHookCalls = @ + 1]
             ELSE Resolve(got, <<"response", response>>)
        ELSE [got EXCEPT !.pc = "text"]

\* AwaitErrorHandler leaving the handler out in debug mode
AwaitErrorHandlerUnlessDebug(frame, config) ==
    IF ConfigTruthy(config, "errorHandler") /\ ~ConfigTruthy(config, "debug")
    THEN [frame EXCEPT !.pc = "errorHandler",
                       !.handled = Append(@, <<frame.error, frame.attempt>>),
                       !.escaped = TRUE]
    ELSE LoopHead(frame)

\* lines 461-466: the handler is invoked, or the loop goes on without it
AwaitErrorHandler(frame, config) ==
    IF ConfigTruthy(config, "errorHandler")
    THEN [frame EXCEPT !.pc = "errorHandler",
                       !.handled = Append(@, <<frame.error, frame.attempt>>),
                       !.escaped = TRUE]
    ELSE LoopHead(frame)

\* lines 458-460
LogError(frame, config) ==
    IF ConfigTruthy(config, "debug")
    THEN [frame EXCEPT !.log = Append(@, <<"error is produced",
                                          ConfigGet(frame.processedPayload, "method", Undefined),
                                          frame.processedUrl, frame.error>>)]
    ELSE frame

\* AfterText starting the next attempt at once, without the error handler
AfterTextEager(frame, config, text) ==
    LoopHead([frame EXCEPT !.retry = TRUE,
                           !.error = HTTPError("HTTP error",
                                         [hasBody |-> TRUE, body |-> text,
                                          statusCode |-> frame.response.status])])

\* lines 454-466 once the body text has arrived
AfterText(frame, config, text) ==
    AwaitErrorHandler(
        LogError([frame EXCEPT !.error =
                     HTTPError("HTTP error",
                         [hasBody |-> TRUE, body |-> text,
                          statusCode |-> frame.response.status])],
                 config),
        config)

\* retryCb, lines 434-437
retryCb(frame) == [frame EXCEPT !.retry = TRUE]

Answer(frame, result, thrown) ==
    [frame EXCEPT !.answers = Append(@, [result |-> result, requested |-> frame.retry,
                                         thrown |-> thrown])]

\* AfterErrorHandler with the test inverted: `handlerResult !== RETRY`
AfterErrorHandlerInverted(frame, handlerResult) ==
    LoopHead(IF handlerResult # "RETRY"
             THEN [Answer(frame, handlerResult, NoError) EXCEPT !.retry = TRUE]
             ELSE Answer(frame, handlerResult, NoError))

\* AfterErrorHandler deciding on the returned flag alone:
\* `retry = handlerResult === RETRY`
AfterErrorHandlerFlagOnly(frame, handlerResult) ==
    LoopHead([Answer(frame, handlerResult, NoError) EXCEPT !.retry = (handlerResult = "RETRY")])

\* lines 467-471 once the handler has returned handlerResult
AfterErrorHandler(frame, handlerResult) ==
    LoopHead(IF handlerResult = "RETRY"
             THEN [Answer(frame, handlerResult, NoError) EXCEPT !.retry = TRUE]
             ELSE Answer(frame, handlerResult, NoError))

\* ErrorHandlerThrew with the handler wrapped in a try/catch that drops e
ErrorHandlerThrewSwallowed(frame, e) == LoopHead(Answer(frame, "throw", e))

\* line 462 when the handler throws: nothing catches, the call rejects with e
ErrorHandlerThrew(frame, e) == Reject(Answer(frame, "throw", e), e)

\* line 449 once processResponse has returned v
AfterProcessResponse(frame, v) == Resolve([frame EXCEPT !.hookResult = v], v)

(***************************************************************************)
(* Inputs: the configs, the call arguments and what the environment (the   *)
(* backend and the user's hooks) answers.                                  *)
(***************************************************************************)
UrlBase == <<"h", "t", "t", "p", ":", "/", "/", "x">>
UrlBaseQuery == <<"h", "t", "t", "p", ":", "/", "/", "x", "/", "?", "k", "=", "0">>
UrlRelQuery == <<"/", "r", "?", "k", "=", "0">>

FullConfig(debug) ==
    << <<"debug", debug>>,
       <<"baseUrl", UrlBase>>,
       <<"headers", << <<"Accept", "xml">>, <<"Auth", "1">> >> >>,
       <<"queryParams", << << <<"k">>, <<"number", 1>> >>, << <<"i">>, StrVal(<<"a", " ">>) >> >> >>,
       <<"fetchParams", << <<"mode", "cors">>, <<"cache", "no-store">> >> >>,
       <<"processPayload", "fn">>,
       <<"processResponse", "fn">>,
       <<"errorHandler", "fn">> >>

Configs ==
    { << >>,
      FullConfig("true"),
      FullConfig("false"),
      << <<"errorHandler", "fn">>, <<"trailingSlash", "false">> >>,
      << <<"debug", "true">>, <<"baseUrl", UrlBaseQuery>>, <<"processResponse", "fn">> >>,
      << <<"baseUrl", UrlRelQuery>>, <<"trailingSlash", "undefined">> >> }

Urls == { <<"a">>, <<"/", "a", "/">> }

PayloadNone == [present |-> FALSE, obj |-> << >>]

PayloadRich ==
      [present |-> TRUE,
       obj |-> << <<"method", Method("PUT")>>,
                  <<"body", <<"object", "product">> >>,
                  <<"headers", << <<"Auth", "2">>, <<"Key", "s">> >> >>,
                  <<"queryParams", << << <<"k">>, <<"number", 2>> >>, << <<"j">>, Undefined >> >> >>,
                  <<"fetchParams", << <<"mode", "no-cors">>,
                                      <<"method", Method("TRACE")>>,
                                      <<"body", <<"string", "fp">> >>,
                                      <<"headers", << <<"Key", "fp">> >> >> >> >> >>]

PayloadArgs ==
    { PayloadNone,
      [present |-> TRUE, obj |-> << >>],
      PayloadRich,
      [present |-> TRUE,
       obj |-> << <<"queryParams", << << <<"q">>, <<"object", 0>> >> >> >> >>] }

Verbs == {"GET", "POST", "PUT", "PATCH", "DELETE", "HEAD"}

Responses ==
    { [status |-> 200, body |-> "ok"], [status |-> 299, body |-> ""],
      [status |-> 300, body |-> ""], [status |-> 500, body |-> "oops"] }

\* what processPayload may return: the payload it was given, possibly changed
PayloadHooks == {"same", "stringifyBody"}

ApplyPayloadHook(hook, payload) ==
    CASE hook = "stringifyBody" ->
            SetKey(SetKey(payload, "body", <<"string", "json">>),
                   "headers",
                   Spread(ConfigGet(payload, "headers", EmptyObj), << <<"Accept", "json">> >>))
      [] OTHER -> payload

\* what processResponse may return
ResponseHookResults == { <<"processed", "json">>, <<"processed", "undefined">> }

\* what errorHandler may return: ErrorHandlerFlag.RETRY or undefined
HandlerResults == {"RETRY", "undefined"}

\* what a hook may throw; "rethrow" is `throw err` in the error handler
HookErrors == { <<"UserError", "custom">> }

\* config-transforming functions given to override()
OverrideFns == {"identity", "setBaseUrl", "mergeHeaders", "onlyBaseUrl", "flipDebug"}

ApplyOverrideFn(fn, config) ==
    CASE fn = "setBaseUrl" -> SetKey(config, "baseUrl", UrlBase \o <<"/", "v", "2">>)
      [] fn = "mergeHeaders" ->
            SetKey(config, "headers",
                   Spread(ConfigGet(config, "headers", EmptyObj), << <<"Auth", "9">> >>))
      [] fn = "onlyBaseUrl" -> << <<"baseUrl", UrlBase>> >>
      [] fn = "flipDebug" ->
            SetKey(config, "debug", IF ConfigTruthy(config, "debug") THEN "false" ELSE "true")
      [] OTHER -> config

(***************************************************************************)
(* The Request builder of the factory and the callable build() returns.    *)
(* request holds the private fields of one builder (fetcher, options, url, *)
(* withPathParams, defaultQueryParams, hooks) and one invocation of the    *)
(* callable: its position pc, its locals url and fetcherPayload, and       *)
(*   built, atBuild   build() was called; the fields it found              *)
(*   atInvoke         the fields the builder had when the callable was     *)
(*                    invoked                                              *)
(*   events           the hooks invoked and the calls of fetcher.fetch     *)
(*                    made, in order: <<name, hooks id, url, payload>>     *)
(*   returned         what the hooks returned, in order                    *)
(* An optional object is [present |-> BOOLEAN, obj |-> object]; a hooks    *)
(* object is [id, beforeRequest, onResponse], the flags telling which of   *)
(* the two functions it defines.                                           *)
(***************************************************************************)
NotGiven == [present |-> FALSE, obj |-> << >>]

Given(obj) == [present |-> TRUE, obj |-> obj]

\* `this._hooks` before hooks() is called
NoHooks == [id |-> 0, beforeRequest |-> FALSE, onResponse |-> FALSE]

NoPayload == [body |-> Undefined, queryParams |-> NotGiven, pathParams |-> NotGiven]

\* the fields the chain methods write
BuilderFields(r) ==
    [withPathParams |-> r.withPathParams,
     defaultQueryParams |-> r.defaultQueryParams,
     hooks |-> r.hooks]

\* new Request(fetcher, url, options), factory.ts 228-240
NewRequest(fetcher, url, options) ==
    [fetcher |-> fetcher, url |-> url, options |-> options,
     withPathParams |-> FALSE, defaultQueryParams |-> NotGiven, hooks |-> NoHooks,
     built |-> FALSE,
     atBuild |-> [withPathParams |-> FALSE, defaultQueryParams |-> NotGiven,
                  hooks |-> NoHooks],
     atInvoke |-> [withPathParams |-> FALSE, defaultQueryParams |-> NotGiven,
                   hooks |-> NoHooks],
     pc |-> "idle", payload |-> NoPayload,
     fetchUrl |-> << >>, fetcherPayload |-> << >>,
     events |-> << >>, returned |-> << >>, result |-> NoResult]

NoRequest == NewRequest(0, << >>, Method("GET"))

\* { ...a, ...b } of two optional objects: spreading undefined adds nothing
SpreadOptional(a, b) == Spread(a.obj, b.obj)

\* the merge with the defaults winning: { ...queryParams, ...defaults }
MergedQueryParamsDefaultsWin(r, payload) ==
    SpreadOptional(payload.queryParams, r.defaultQueryParams)

\* line 288
MergedQueryParams(r, payload) ==
    SpreadOptional(r.defaultQueryParams, payload.queryParams)

\* the URL interpolated whether or not pathParams() was called
RequestUrlAlways(r, payload) == generatePath(r.url, payload.pathParams.obj)

\* lines 290-293: generatePath(url, undefined) takes {} for the params
RequestUrl(r, payload) ==
    IF r.withPathParams
    THEN generatePath(r.url, payload.pathParams.obj)
    ELSE Ok(r.url)

\* lines 295-299
FetcherPayload(r, payload) ==
    << <<"method", r.options>>,
       <<"queryParams", MergedQueryParams(r, payload)>>,
       <<"body", payload.body>> >>

Event(name, hooks, url, payload) ==
    [name |-> name, hooks |-> hooks, url |-> url, payload |-> payload]

\* line 304 up to the await: this._fetcher.fetch(url, fetcherPayload)
CallFetch(r) ==
    [r EXCEPT !.pc = "fetch",
              !.events = Append(@, Event("fetch", 0, r.fetchUrl, r.fetcherPayload))]

\* CallFetch without the hook: fetch is called while beforeRequest is awaited
BeforeRequestDetached(r) ==
    CallFetch([r EXCEPT !.events = Append(@, Event("beforeRequest", r.hooks.id,
                                                   r.fetchUrl, r.fetcherPayload))])

\* lines 300-302: the hook is awaited, or fetch is called at once
BeforeRequest(r) ==
    IF r.hooks.beforeRequest
    THEN [r EXCEPT !.pc = "beforeRequest",
                   !.events = Append(@, Event("beforeRequest", r.hooks.id,
                                              r.fetchUrl, r.fetcherPayload))]
    ELSE CallFetch(r)

\* lines 283-302: the callable up to its first await; a throw of
\* generatePath rejects the promise the callable returns
Invoke(r, payload) ==
    IF ~IsOk(RequestUrl(r, payload))
    THEN [r EXCEPT !.pc = "rejected", !.payload = payload,
                   !.atInvoke = BuilderFields(r),
                   !.result = <<"Error", RequestUrl(r, payload)[2]>>]
    ELSE BeforeRequest([r EXCEPT !.payload = payload,
                                 !.atInvoke = BuilderFields(r),
                                 !.fetchUrl = RequestUrl(r, payload)[2],
                                 !.fetcherPayload = FetcherPayload(r, payload)])

\* what beforeRequest may return: the payload it was given, possibly changed
BeforeRequestFns == {"same", "addHeader"}

ApplyBeforeRequest(fn, payload) ==
    IF fn = "addHeader"
    THEN SetKey(payload, "headers", << <<"Auth", "7">> >>)
    ELSE payload

\* line 301 resumes: the hook's return value replaces the payload
AfterBeforeRequest(r, newPayload) ==
    CallFetch([r EXCEPT !.fetcherPayload = newPayload,
                        !.returned = Append(@, <<"beforeRequest", newPayload>>)])

\* RequestThrew with the exception wrapped in a new Error
RequestThrewWrapped(r, e) == [r EXCEPT !.pc = "rejected", !.result = <<"Error", e>>]

\* an exception leaves the async callable: its promise is rejected with it
RequestThrew(r, e) == [r EXCEPT !.pc = "rejected", !.result = e]

\* AfterFetchSettled with onResponse applied twice
AfterFetchSettledTwice(r, frame) ==
    IF frame.pc = "rejected" THEN RequestThrew(r, frame.result)
    ELSE IF r.hooks.onResponse
    THEN [r EXCEPT !.pc = "onResponse",
                   !.events = @ \o << Event("onResponse", r.hooks.id, << >>, frame.result),
                                      Event("onResponse", r.hooks.id, << >>, frame.result) >>]
    ELSE [r EXCEPT !.pc = "resolved", !.result = frame.result]

\* lines 304-310 once the promise of fetch has settled, frame being the
\* call of fetch: its rejection leaves the callable, its result goes to
\* onResponse or is returned
AfterFetchSettled(r, frame) ==
    IF frame.pc = "rejected" THEN RequestThrew(r, frame.result)
    ELSE IF r.hooks.onResponse
    THEN [r EXCEPT !.pc = "onResponse",
                   !.events = Append(@, Event("onResponse", r.hooks.id, << >>, frame.result))]
    ELSE [r EXCEPT !.pc = "resolved", !.result = frame.result]

\* line 307 resumes
AfterOnResponse(r, v) ==
    [r EXCEPT !.pc = "resolved", !.result = <<"value", v>>,
              !.returned = Append(@, <<"onResponse", v>>)]

(***************************************************************************)
(* Operations.  Every action is one synchronous stretch of the code: from  *)
(* a call, or from the completion of an awaited promise, to the next await *)
(* or to the settlement of the call.                                       *)
(***************************************************************************)
Init ==
    \E config \in Configs :
        /\ fetchers = (1 :> NewFetcherConfig(config))
        /\ console = NewFetcherLog(config)
        /\ overrides = << >>
        /\ calls = [c \in Calls |-> IdleCall]
        /\ errs = << >>
        /\ evals = << >>
        /\ request = NoRequest

Resume(c, frame) ==
    /\ calls' = [calls EXCEPT ![c] = frame]
    /\ UNCHANGED <<fetchers, console, overrides, errs, evals, request>>

ConfigOf(c) == fetchers[calls[c].this]

\* override assigning the new config to this.config as well
overrideAssign(f, fn) ==
    LET child == Cardinality(DOMAIN fetchers) + 1
        config == ApplyOverrideFn(fn, fetchers[f])
    IN  /\ f \in DOMAIN fetchers
        /\ child <= MaxFetchers
        /\ fetchers' = [fetchers EXCEPT ![f] = NewFetcherConfig(config)]
                            @@ (child :> NewFetcherConfig(config))
        /\ console' = console \o NewFetcherLog(config)
        /\ overrides' = Append(overrides, [receiver |-> f, fn |-> fn, config |-> config,
                                           returned |-> child])
        /\ UNCHANGED <<calls, errs, evals, request>>

\* override(overrideFn)
override(f, fn) ==
    LET child == Cardinality(DOMAIN fetchers) + 1
        config == ApplyOverrideFn(fn, fetchers[f])
    IN  /\ f \in DOMAIN fetchers
        /\ child <= MaxFetchers
        /\ fetchers' = fetchers @@ (child :> NewFetcherConfig(config))
        /\ console' = console \o NewFetcherLog(config)
        /\ overrides' = Append(overrides, [receiver |-> f, fn |-> fn, config |-> config,
                                           returned |-> child])
        /\ UNCHANGED <<calls, errs, evals, request>>

\* slot c is free for a call
CanCall(c) == calls[c].pc = "idle"

\* the caller is done with a settled call: its slot is free for the next one
forget(c) ==
    /\ Settled(calls[c])
    /\ Resume(c, IdleCall)

\* fetch(url, payload)
fetch(c, f, url, payloadArg) ==
    /\ CanCall(c)
    /\ f \in DOMAIN fetchers
    /\ Resume(c, FetchBegin(f, fetchers[f], url, payloadArg))

\* get, post, put, patch, delete, head
verb(c, f, method, url, payloadArg) ==
    /\ CanCall(c)
    /\ f \in DOMAIN fetchers
    /\ Resume(c, FetchBegin(f, fetchers[f], url,
                   [present |-> TRUE,
                    obj |-> Spread(IF payloadArg.present THEN payloadArg.obj ELSE EmptyObj,
                                   << <<"method", Method(method)>> >>)]))

processPayloadReturns(c, hook) ==
    /\ calls[c].pc = "processPayload"
    /\ Resume(c, AfterProcessPayload(calls[c], ConfigOf(c),
                                     ApplyPayloadHook(hook, calls[c].processedPayload)))

processPayloadThrows(c, e) ==
    /\ calls[c].pc = "processPayload"
    /\ Resume(c, Reject(calls[c], e))

fetchResolves(c, response) ==
    /\ calls[c].pc = "fetch"
    /\ Resume(c, AfterFetch(calls[c], ConfigOf(c), response))

\* the network primitive fails (no response)
fetchRejects(c) ==
    /\ calls[c].pc = "fetch"
    /\ Resume(c, Reject(calls[c], <<"TypeError", "Failed to fetch">>))

processResponseReturns(c, v) ==
    /\ calls[c].pc = "processResponse"
    /\ Resume(c, AfterProcessResponse(calls[c], v))

processResponseThrows(c, e) ==
    /\ calls[c].pc = "processResponse"
    /\ Resume(c, Reject(calls[c], e))

textResolves(c) ==
    /\ calls[c].pc = "text"
    /\ Resume(c, AfterText(calls[c], ConfigOf(c), calls[c].response.body))

textRejects(c) ==
    /\ calls[c].pc = "text"
    /\ Resume(c, Reject(calls[c], <<"TypeError", "body stream error">>))

\* the handler invokes ctx.retry() while it runs
errorHandlerCallsRetry(c) ==
    /\ calls[c].pc = "errorHandler"
    /\ calls[c].attempt < MaxAttempts
    /\ Resume(c, retryCb(calls[c]))

errorHandlerReturns(c, handlerResult) ==
    /\ calls[c].pc = "errorHandler"
    /\ handlerResult = "RETRY" => calls[c].attempt < MaxAttempts
    /\ Resume(c, AfterErrorHandler(calls[c], handlerResult))

\* e is an error of the handler's own, or the HTTPError it was given
errorHandlerThrows(c, e) ==
    /\ calls[c].pc = "errorHandler"
    /\ e \in HookErrors \cup {calls[c].error}
    /\ Resume(c, ErrorHandlerThrew(calls[c], e))

\* a retry callback kept from an earlier handler invocation is invoked while
\* the call is suspended elsewhere
lateRetry(c) ==
    /\ calls[c].pc \in {"fetch", "text", "processResponse"}
    /\ calls[c].escaped
    /\ calls[c].attempt < MaxAttempts
    /\ Resume(c, retryCb(calls[c]))

\* one step of the call in slot c, its inputs drawn from the sets of `in`
FetcherStep(c, in) ==
    \/ \E f \in DOMAIN fetchers, url \in in.urls, payloadArg \in in.payloadArgs :
           fetch(c, f, url, payloadArg)
    \/ \E f \in DOMAIN fetchers, method \in in.verbs, url \in in.verbUrls,
          payloadArg \in in.verbPayloadArgs :
           verb(c, f, method, url, payloadArg)
    \/ \E hook \in in.payloadHooks : processPayloadReturns(c, hook)
    \/ \E e \in HookErrors : processPayloadThrows(c, e)
    \/ \E response \in in.responses : fetchResolves(c, response)
    \/ fetchRejects(c)
    \/ \E v \in in.responseHookResults : processResponseReturns(c, v)
    \/ \E e \in HookErrors : processResponseThrows(c, e)
    \/ textResolves(c)
    \/ textRejects(c)
    \/ errorHandlerCallsRetry(c)
    \/ \E handlerResult \in HandlerResults : errorHandlerReturns(c, handlerResult)
    \/ \E e \in HookErrors \cup {calls[c].error} : errorHandlerThrows(c, e)
    \/ lateRetry(c)

AllInputs ==
    [urls |-> Urls, payloadArgs |-> PayloadArgs,
     verbs |-> Verbs, verbUrls |-> {<<"a">>}, verbPayloadArgs |-> {PayloadNone, PayloadRich},
     payloadHooks |-> PayloadHooks, responses |-> Responses,
     responseHookResults |-> ResponseHookResults]

FewInputs ==
    [urls |-> {<<"a">>}, payloadArgs |-> {PayloadNone},
     verbs |-> {"POST"}, verbUrls |-> {<<"a">>}, verbPayloadArgs |-> {PayloadNone},
     payloadHooks |-> {"same"},
     responses |-> {[status |-> 200, body |-> "ok"], [status |-> 500, body |-> "oops"]},
     responseHookResults |-> { <<"processed", "json">> }]

(***************************************************************************)
(* Spec: calls of fetch and of the verb shortcuts on one Fetcher, one call *)
(* at a time, with every input.                                            *)
(***************************************************************************)
Next == FetcherStep(1, AllInputs)

Spec == Init /\ [][Next]_vars

(***************************************************************************)
(* SpecLate: one call whose error handler keeps the retry callback it is   *)
(* given and never invokes it while it runs; the callback is invoked later,*)
(* while the call waits for the network, for the body or for               *)
(* processResponse.                                                        *)
(***************************************************************************)
NextLate ==
    \/ \E f \in DOMAIN fetchers, url \in FewInputs.urls, payloadArg \in FewInputs.payloadArgs :
           fetch(1, f, url, payloadArg)
    \/ \E hook \in FewInputs.payloadHooks : processPayloadReturns(1, hook)
    \/ \E response \in Responses : fetchResolves(1, response)
    \/ \E v \in FewInputs.responseHookResults : processResponseReturns(1, v)
    \/ textResolves(1)
    \/ \E handlerResult \in HandlerResults : errorHandlerReturns(1, handlerResult)
    \/ lateRetry(1)

SpecLate == Init /\ [][NextLate]_vars

(***************************************************************************)
(* SpecLive: one call under the assumption that whatever it awaits (the    *)
(* network call, the body text, a hook) completes at some time.  A handler *)
(* asks for a retry a finite number of times: not beyond MaxAttempts.      *)
(***************************************************************************)
\* what call c awaits completes: it resolves or rejects, returns or throws
Completes(c) ==
    \/ \E hook \in FewInputs.payloadHooks : processPayloadReturns(c, hook)
    \/ \E e \in HookErrors : processPayloadThrows(c, e)
    \/ \E response \in FewInputs.responses : fetchResolves(c, response)
    \/ fetchRejects(c)
    \/ \E v \in FewInputs.responseHookResults : processResponseReturns(c, v)
    \/ \E e \in HookErrors : processResponseThrows(c, e)
    \/ textResolves(c)
    \/ textRejects(c)
    \/ \E handlerResult \in HandlerResults : errorHandlerReturns(c, handlerResult)
    \/ \E e \in HookErrors \cup {calls[c].error} : errorHandlerThrows(c, e)

NextLive == FetcherStep(1, FewInputs)

SpecLive == Init /\ [][NextLive]_vars /\ WF_vars(Completes(1))

(***************************************************************************)
(* SpecPair: two calls of fetch in flight on the same Fetcher, their steps *)
(* interleaved in any order.                                               *)
(***************************************************************************)
PairStep(c) ==
    \/ \E f \in DOMAIN fetchers, url \in FewInputs.urls, payloadArg \in FewInputs.payloadArgs :
           fetch(c, f, url, payloadArg)
    \/ \E hook \in FewInputs.payloadHooks : processPayloadReturns(c, hook)
    \/ \E response \in FewInputs.responses : fetchResolves(c, response)
    \/ \E v \in FewInputs.responseHookResults : processResponseReturns(c, v)
    \/ textResolves(c)
    \/ errorHandlerCallsRetry(c)
    \/ \E handlerResult \in HandlerResults : errorHandlerReturns(c, handlerResult)

NextPair == \E c \in Calls : PairStep(c)

SpecPair == Init /\ [][NextPair]_vars

(***************************************************************************)
(* SpecOverride: override() interleaved with calls on any of the Fetchers. *)
(***************************************************************************)
NextOverride ==
    \/ \E f \in DOMAIN fetchers, fn \in OverrideFns : override(f, fn)
    \/ FetcherStep(1, FewInputs)
    \/ forget(1)

SpecOverride == Init /\ [][NextOverride]_vars

(***************************************************************************)
(* SpecHTTPError: HTTPError constructed for every status code of the range *)
(* and with or without a body.                                             *)
(***************************************************************************)
HTTPErrorOptions ==
    { [hasBody |-> hasBody, body |-> body, statusCode |-> statusCode] :
        hasBody \in BOOLEAN, body \in {"", "oops"}, statusCode \in MinStatus..MaxStatus }

\* new HTTPError(message, options)
newHTTPError(message, options) ==
    /\ errs = << >>
    /\ ~options.hasBody => options.body = ""
    /\ errs' = << [message |-> message, options |-> options,
                   error |-> HTTPError(message, options)] >>
    /\ UNCHANGED <<fetchers, console, overrides, calls, evals, request>>

NextHTTPError == \E options \in HTTPErrorOptions : newHTTPError("HTTP error", options)

InitHTTPError ==
    /\ fetchers = (1 :> NewFetcherConfig(EmptyObj))
    /\ console = << >>
    /\ overrides = << >>
    /\ calls = [c \in Calls |-> IdleCall]
    /\ errs = << >>
    /\ evals = << >>
    /\ request = NoRequest

SpecHTTPError == InitHTTPError /\ [][NextHTTPError]_vars

(***************************************************************************)
(* SpecTwin: two Fetchers whose configs differ in debug alone; call 1 runs *)
(* on the one with debug set, call 2 on the other; both are given the same *)
(* arguments and, step by step, the same answers of the backend and of the *)
(* hooks.                                                                  *)
(***************************************************************************)
DebugOff == { << >>, << <<"debug", "false">> >>, << <<"debug", "undefined">> >> }

InitTwin ==
    \E config \in Configs, off \in DebugOff :
        /\ fetchers = (1 :> NewFetcherConfig(Spread(config, << <<"debug", "true">> >>))
                       @@ 2 :> NewFetcherConfig(
                                   IF off = << >>
                                   THEN SelectSeq(config, LAMBDA kv : kv[1] # "debug")
                                   ELSE Spread(config, off)))
        /\ console = NewFetcherLog(Spread(config, << <<"debug", "true">> >>))
        /\ overrides = << >>
        /\ calls = [c \in Calls |-> IdleCall]
        /\ errs = << >>
        /\ evals = << >>
        /\ request = NoRequest

\* both calls are at the same await
Both(pc) == \A c \in Calls : calls[c].pc = pc

ResumeBoth(frame1, frame2) ==
    /\ calls' = [c \in Calls |-> IF c = 1 THEN frame1 ELSE frame2]
    /\ UNCHANGED <<fetchers, console, overrides, errs, evals, request>>

TwinFrame(c, url, payloadArg) == FetchBegin(c, fetchers[c], url, payloadArg)

twinFetch(url, payloadArg) ==
    /\ Both("idle")
    /\ ResumeBoth(TwinFrame(1, url, payloadArg), TwinFrame(2, url, payloadArg))

twinProcessPayloadReturns(hook) ==
    /\ Both("processPayload")
    /\ ResumeBoth(AfterProcessPayload(calls[1], ConfigOf(1),
                                      ApplyPayloadHook(hook, calls[1].processedPayload)),
                  AfterProcessPayload(calls[2], ConfigOf(2),
                                      ApplyPayloadHook(hook, calls[2].processedPayload)))

twinProcessPayloadThrows(e) ==
    /\ Both("processPayload")
    /\ ResumeBoth(Reject(calls[1], e), Reject(calls[2], e))

twinFetchResolves(response) ==
    /\ Both("fetch")
    /\ ResumeBoth(AfterFetch(calls[1], ConfigOf(1), response),
                  AfterFetch(calls[2], ConfigOf(2), response))

twinProcessResponseReturns(v) ==
    /\ Both("processResponse")
    /\ ResumeBoth(AfterProcessResponse(calls[1], v), AfterProcessResponse(calls[2], v))

twinTextResolves ==
    /\ Both("text")
    /\ ResumeBoth(AfterText(calls[1], ConfigOf(1), calls[1].response.body),
                  AfterText(calls[2], ConfigOf(2), calls[2].response.body))

twinRetry ==
    /\ Both("errorHandler") \/ (Both("fetch") /\ \A c \in Calls : calls[c].escaped)
    /\ \A c \in Calls : calls[c].attempt < MaxAttempts
    /\ ResumeBoth(retryCb(calls[1]), retryCb(calls[2]))

twinErrorHandlerReturns(handlerResult) ==
    /\ Both("errorHandler")
    /\ handlerResult = "RETRY" => \A c \in Calls : calls[c].attempt < MaxAttempts
    /\ ResumeBoth(AfterErrorHandler(calls[1], handlerResult),
                  AfterErrorHandler(calls[2], handlerResult))

\* the handlers throw the same error of their own, or each the error it got
twinErrorHandlerThrows(own, e) ==
    /\ Both("errorHandler")
    /\ ResumeBoth(ErrorHandlerThrew(calls[1], IF own THEN e ELSE calls[1].error),
                  ErrorHandlerThrew(calls[2], IF own THEN e ELSE calls[2].error))

NextTwin ==
    \/ \E url \in Urls, payloadArg \in PayloadArgs : twinFetch(url, payloadArg)
    \/ \E hook \in PayloadHooks : twinProcessPayloadReturns(hook)
    \/ \E e \in HookErrors : twinProcessPayloadThrows(e)
    \/ \E response \in Responses : twinFetchResolves(response)
    \/ \E v \in ResponseHookResults : twinProcessResponseReturns(v)
    \/ twinTextResolves
    \/ twinRetry
    \/ \E handlerResult \in HandlerResults : twinErrorHandlerReturns(handlerResult)
    \/ \E own \in BOOLEAN, e \in HookErrors : twinErrorHandlerThrows(own, e)

SpecTwin == InitTwin /\ [][NextTwin]_vars

(***************************************************************************)
(* SpecQuery: encodeQueryParams and insertQueryParams called once, on      *)
(* every payload, options and base URL of the sets below.                  *)
(***************************************************************************)
SeqsUpTo(S, n) == UNION { [1..m -> S] : m \in 0..n }

DateMidnight ==
    <<"date", [year |-> 2052, month |-> 0, date |-> 1, midnight |-> TRUE,
               iso |-> <<"2", "0", "5", "1", "T", "2", "1", ":", "0", "0", "Z">>]>>

DateMorning ==
    <<"date", [year |-> 2024, month |-> 0, date |-> 1, midnight |-> FALSE,
               iso |-> <<"2", "0", "2", "4", "T", "1", "0", ":", "0", "0", "Z">>]>>

Scalars ==
    { Undefined, Null, StrVal(<<"a">>), StrVal(<<"a", ",", "b">>),
      <<"number", 10>>, <<"boolean", "true">>, DateMidnight, DateMorning, <<"object", 0>> }

ArrayElements ==
    { Undefined, Null, StrVal(<<"a">>), StrVal(<<"a", ",", "b">>), <<"number", 10>>,
      <<"object", 0>> }

Arrays == { <<"array", elements>> : elements \in SeqsUpTo(ArrayElements, MaxArrayLen) }

\* payloads of no key, of one key with any value, of two keys with scalars
QueryPayloads ==
    { << >> }
        \cup { << << <<"k">>, v >> >> : v \in Scalars \cup Arrays }
        \cup { << << <<"k">>, v >>, << <<"j">>, w >> >> : v \in Scalars, w \in Scalars }

QueryOptions ==
    { [DefaultQueryOptions EXCEPT !.serializers = ss] :
          ss \in { << >>, <<"hexNumber">>, <<"hexNumber", "numberHash">>,
                   <<"numberHash", "hexNumber">>, <<"objectTag", "stringStar">> } }
        \cup { [DefaultQueryOptions EXCEPT !.arrayFormat = f] :
                   f \in {"repeat", "comma", "bracket", "someFancyFormat"} }
        \cup { [DefaultQueryOptions EXCEPT !.skipNull = b] : b \in {"true", "false"} }
        \cup { [serializers |-> <<"objectTag">>, arrayFormat |-> "someFancyFormat",
                skipNull |-> "true"] }

BaseUrls ==
    { UrlBase, UrlBaseQuery, UrlRelQuery,
      <<"/", "r">>,
      UrlBase \o <<"?", "k", "=", "0">>,
      UrlBase \o <<"/", "p", "?", "k", "=", "0", "&", "j", "=", "1">>,
      UrlBase \o <<"/", "p", "?", "k", "=", "0", "#", "f">> }

InsertPayloads ==
    { PayloadNone }
        \cup { [present |-> TRUE, obj |-> obj] :
                 obj \in { << >> }
                     \cup { << << <<"k">>, v >> >> : v \in Scalars }
                     \cup { << << <<"n">>, v >>, << <<"k">>, w >> >> :
                              v \in {Undefined, <<"number", 10>>},
                              w \in {Undefined, Null, StrVal(<<"a">>)} } }

InsertOptions ==
    { DefaultQueryOptions, [DefaultQueryOptions EXCEPT !.skipNull = "true"] }

InitQuery ==
    /\ fetchers = (1 :> NewFetcherConfig(EmptyObj))
    /\ console = << >>
    /\ overrides = << >>
    /\ calls = [c \in Calls |-> IdleCall]
    /\ errs = << >>
    /\ evals = << >>
    /\ request = NoRequest

\* no helper has been called yet
Fresh == evals = << >>

Evaluated(record) ==
    /\ evals' = <<record>>
    /\ UNCHANGED <<fetchers, console, overrides, calls, errs, request>>

callEncodeQueryParams(params, options) ==
    /\ Fresh
    /\ Evaluated([op |-> "encodeQueryParams", params |-> params, options |-> options,
                  result |-> encodeQueryParams(params, options)])

callInsertQueryParams(baseUrl, payload, options) ==
    /\ Fresh
    /\ Evaluated([op |-> "insertQueryParams", baseUrl |-> baseUrl, payload |-> payload,
                  options |-> options,
                  result |-> insertQueryParams(baseUrl, payload, options)])

NextQuery ==
    \/ \E params \in QueryPayloads, options \in QueryOptions :
           callEncodeQueryParams(params, options)
    \/ \E baseUrl \in BaseUrls, payload \in InsertPayloads, options \in InsertOptions :
           callInsertQueryParams(baseUrl, payload, options)

SpecQuery == InitQuery /\ [][NextQuery]_vars

(***************************************************************************)
(* SpecUrlJoin and SpecPath: urlJoin, respectively generatePath, called    *)
(* once, on every list of parts, options, template and params of the sets  *)
(* below.                                                                  *)
(***************************************************************************)
MaxParts == 3

MaxPartLen == 3

MaxSegments == 3

\* the parts: every string of separators and letters up to MaxPartLen
Parts == SeqsUpTo({"a", "/"}, MaxPartLen)

\* the lists of n parts
PartLists(n) == [1..n -> Parts]

UrlJoinOptions ==
    { EmptyObj,
      << <<"trailingSlash", "true">> >>,
      << <<"trailingSlash", "false">> >>,
      << <<"trailingSlash", "undefined">> >>,
      << <<"sep", "a">> >>,
      << <<"sep", "a">>, <<"trailingSlash", "false">> >> }

\* the segments of a template: static, static with the optional marker,
\* required and optional placeholders, a colon without a name, and the
\* empty segment that consecutive, leading and trailing slashes leave
StaticSegments == { <<"a">>, <<"b", "?">>, <<":">> }

RequiredSegments == { <<":", "i", "d">>, <<":", "k", "-", "1">> }

OptionalSegments == { <<":", "i", "d", "?">> }

TemplateSegments ==
    StaticSegments \cup RequiredSegments \cup OptionalSegments \cup { << >> }

SegmentLists == SeqsUpTo(TemplateSegments, MaxSegments)

PathParams ==
    { IF id[1] = "absent" THEN k ELSE << <<(<<"i", "d">>), id>> >> \o k :
        id \in { <<"absent", 0>>, Null, Undefined, <<"number", 10>>,
                 StrVal(<<"x">>), StrVal(<< >>) },
        k \in { EmptyObj, << <<(<<"k", "-", "1">>), StrVal(<<"y", "/", "z">>)>> >> } }

callUrlJoin(parts, options) ==
    /\ Fresh
    /\ Evaluated([op |-> "urlJoin", parts |-> parts, options |-> options,
                  result |-> urlJoinWith(parts, options)])

\* urlJoin([urlJoin([a, b]), c]) next to urlJoin([a, b, c])
callUrlJoinNested(a, b, c) ==
    /\ Fresh
    /\ Evaluated([op |-> "urlJoinNested", a |-> a, b |-> b, c |-> c,
                  nested |-> urlJoinWith(<<urlJoinWith(<<a, b>>, EmptyObj), c>>, EmptyObj),
                  flat |-> urlJoinWith(<<a, b, c>>, EmptyObj)])

callGeneratePath(segments, params) ==
    /\ Fresh
    /\ Evaluated([op |-> "generatePath", segments |-> segments,
                  path |-> Join(segments, "/"), params |-> params,
                  result |-> generatePath(Join(segments, "/"), params)])

NextUrlJoin ==
    \/ Fresh /\ \E n \in 0..MaxParts :
                    \E parts \in PartLists(n), options \in UrlJoinOptions :
                        callUrlJoin(parts, options)
    \/ Fresh /\ \E a \in Parts, b \in Parts, c \in Parts : callUrlJoinNested(a, b, c)

SpecUrlJoin == InitQuery /\ [][NextUrlJoin]_vars

NextPath ==
    Fresh /\ \E segments \in SegmentLists, params \in PathParams :
                 callGeneratePath(segments, params)

SpecPath == InitQuery /\ [][NextPath]_vars

(***************************************************************************)
(* SpecRoutes: routes called once, on every hierarchy of up to MaxNodes    *)
(* nodes.                                                                  *)
(***************************************************************************)
MaxNodes == 3

RouteKeys == { <<"A">>, <<"B">>, <<"A", "_", "B">> }

RoutePaths == { <<"a">>, <<"/", "b", "/">> }

\* a node of k nodes in all: its key, its path and k - 1 descendants; a node
\* of one node has an empty children object or none
NodesOf(k, descendants) ==
    { <<key, [path |-> path, hasChildren |-> TRUE, children |-> children]>> :
        key \in RouteKeys, path \in RoutePaths, children \in descendants }
    \cup
    { <<key, [path |-> path, hasChildren |-> FALSE, children |-> << >>]>> :
        key \in { x \in RouteKeys : k = 1 }, path \in RoutePaths }

RECURSIVE HierarchiesOf(_)
\* the hierarchies of exactly n nodes: a first node of k nodes, then the other
\* entries, under keys the first node does not have
HierarchiesOf(n) ==
    IF n = 0 THEN { << >> }
    ELSE UNION { { h \in { <<node>> \o others :
                              node \in NodesOf(k, HierarchiesOf(k - 1)),
                              others \in HierarchiesOf(n - k) } :
                     ~Has(Tail(h), h[1][1]) }
               : k \in 1..n }

callRoutes(hierarchy) ==
    /\ Fresh
    /\ Evaluated([op |-> "routes", hierarchy |-> hierarchy, result |-> routes(hierarchy)])

NextRoutes ==
    Fresh /\ \E n \in 0..MaxNodes : \E hierarchy \in HierarchiesOf(n) : callRoutes(hierarchy)

SpecRoutes == InitQuery /\ [][NextRoutes]_vars

(***************************************************************************)
(* The Request builder: the chain methods, build(), and one invocation of  *)
(* the callable, which calls fetch on the Fetcher the builder is bound to; *)
(* that call runs in slot 1.                                               *)
(***************************************************************************)
RequestConfigs == { << >>, FullConfig("false") }

RequestUrls == { <<"p", "/", ":", "i", "d">>, <<"p">> }

DefaultQueryParams ==
    { NotGiven, Given(<< << <<"k">>, <<"number", 1>> >>, << <<"j">>, <<"number", 1>> >> >>) }

HookSets ==
    { [id |-> 1, beforeRequest |-> TRUE, onResponse |-> TRUE],
      [id |-> 2, beforeRequest |-> FALSE, onResponse |-> TRUE],
      [id |-> 3, beforeRequest |-> TRUE, onResponse |-> FALSE] }

RequestPayloads ==
    { [body |-> IF q.present THEN StrVal(<<"b">>) ELSE Undefined,
       queryParams |-> q, pathParams |-> pp] :
        q \in { NotGiven,
                Given(<< << <<"k">>, <<"number", 2>> >>, << <<"m">>, <<"number", 2>> >> >>) },
        pp \in { NotGiven, Given(<< << <<"i", "d">>, <<"number", 10>> >> >>) } }

OnResponseResults == { <<"transformed", "json">> }

InitRequest ==
    \E config \in RequestConfigs, url \in RequestUrls :
        /\ fetchers = (1 :> NewFetcherConfig(config))
        /\ console = NewFetcherLog(config)
        /\ overrides = << >>
        /\ calls = [c \in Calls |-> IdleCall]
        /\ errs = << >>
        /\ evals = << >>
        /\ request = NewRequest(1, url, Method("GET"))

\* a step of the builder or of its callable that calls nothing else
Chain(r) ==
    /\ request' = r
    /\ UNCHANGED <<fetchers, console, overrides, calls, errs, evals>>

\* a step of the callable that may call this._fetcher.fetch(url, fetcherPayload)
Dispatch(r) ==
    /\ request' = r
    /\ calls' = IF r.pc = "fetch"
                THEN [calls EXCEPT ![1] = FetchBegin(r.fetcher, fetchers[r.fetcher],
                                                     r.fetchUrl, Given(r.fetcherPayload))]
                ELSE calls
    /\ UNCHANGED <<fetchers, console, overrides, errs, evals>>

\* pathParams()
pathParams == Chain([request EXCEPT !.withPathParams = TRUE])

\* queryParams(defaultQueryParams)
queryParams(defaultQueryParams) ==
    Chain([request EXCEPT !.defaultQueryParams = defaultQueryParams])

\* body()
body == Chain(request)

\* hooks(hooks)
hooks(h) == Chain([request EXCEPT !.hooks = h])

\* build()
build == Chain([request EXCEPT !.built = TRUE, !.atBuild = BuilderFields(request)])

\* the callable build() returned is called with a payload
invoke(payload) ==
    /\ request.built
    /\ request.pc = "idle"
    /\ Dispatch(Invoke(request, payload))

beforeRequestReturns(fn) ==
    /\ request.pc = "beforeRequest"
    /\ Dispatch(AfterBeforeRequest(request, ApplyBeforeRequest(fn, request.fetcherPayload)))

beforeRequestThrows(e) ==
    /\ request.pc = "beforeRequest"
    /\ Chain(RequestThrew(request, e))

\* the promise fetch returned has settled and the callable resumes
fetchSettles ==
    /\ request.pc = "fetch"
    /\ Settled(calls[1])
    /\ Chain(AfterFetchSettled(request, calls[1]))

onResponseReturns(v) ==
    /\ request.pc = "onResponse"
    /\ Chain(AfterOnResponse(request, v))

onResponseThrows(e) ==
    /\ request.pc = "onResponse"
    /\ Chain(RequestThrew(request, e))

\* the steps of the callable and of the call of fetch it makes
CallableStep ==
    \/ \E payload \in RequestPayloads : invoke(payload)
    \/ \E fn \in BeforeRequestFns : beforeRequestReturns(fn)
    \/ \E e \in HookErrors : beforeRequestThrows(e)
    \/ Completes(1)
    \/ errorHandlerCallsRetry(1)
    \/ fetchSettles
    \/ \E v \in OnResponseResults : onResponseReturns(v)
    \/ \E e \in HookErrors : onResponseThrows(e)

(***************************************************************************)
(* SpecRequest: the builder used as a fluent chain that ends with build(): *)
(* chain methods, then build(), then one invocation of the callable.       *)
(***************************************************************************)
NextRequest ==
    \/ ~request.built /\ pathParams
    \/ ~request.built /\ \E defaultQueryParams \in DefaultQueryParams :
                              queryParams(defaultQueryParams)
    \/ ~request.built /\ body
    \/ ~request.built /\ \E h \in HookSets : hooks(h)
    \/ ~request.built /\ build
    \/ CallableStep

SpecRequest == InitRequest /\ [][NextRequest]_vars

(***************************************************************************)
(* SpecKept: the builder is kept by its owner, who goes on calling chain   *)
(* methods on it after build(), also while the callable runs.  The backend *)
(* answers 200 and no hook throws.                                         *)
(***************************************************************************)
NextKept ==
    \/ ~request.built /\ build
    \/ pathParams
    \/ \E defaultQueryParams \in DefaultQueryParams : queryParams(defaultQueryParams)
    \/ \E h \in HookSets : hooks(h)
    \/ \E payload \in RequestPayloads : invoke(payload)
    \/ \E fn \in BeforeRequestFns : beforeRequestReturns(fn)
    \/ \E hook \in FewInputs.payloadHooks : processPayloadReturns(1, hook)
    \/ fetchResolves(1, [status |-> 200, body |-> "ok"])
    \/ \E v \in FewInputs.responseHookResults : processResponseReturns(1, v)
    \/ fetchSettles
    \/ \E v \in OnResponseResults : onResponseReturns(v)

SpecKept == InitRequest /\ [][NextKept]_vars

(***************************************************************************)
(* Properties.                                                             *)
(***************************************************************************)
Started(c) == calls[c].pc # "idle"

HasHook(c, hook) == ConfigTruthy(fetchers[calls[c].this], hook)

Is2xx(status) == status \in 200..299

\* the handler invocation asked for one more attempt: it returned RETRY, or
\* retry() was invoked during the attempt
AsksRetry(answer) ==
    answer.result = "RETRY" \/ (answer.result = "undefined" /\ answer.requested)

\* C1: when the error handler returns RETRY, one more network call is made,
\* with the URL and the processed payload of the attempt before; processPayload
\* runs at most once per call of fetch; the handler is given the attempt
\* numbers 1, 2, 3, ... in this order.
C1_RetrySameRequest ==
    \A c \in Calls :
        /\ calls[c].payloadHookCalls <= 1
        /\ \A i \in DOMAIN calls[c].handled : calls[c].handled[i][2] = i
        /\ \A i \in DOMAIN calls[c].answers :
               calls[c].answers[i].result = "RETRY"
                   => /\ Len(calls[c].dispatched) > i
                      /\ calls[c].dispatched[i + 1] = calls[c].dispatched[i]
        /\ Len(calls[c].dispatched) <= Len(calls[c].answers) + 1

C1_Witness ==
    \E c \in Calls :
        /\ Len(calls[c].answers) >= 2
        /\ calls[c].answers[1].result = "RETRY"
        /\ calls[c].answers[2].result = "RETRY"
        /\ calls[c].payloadHookCalls = 1
        /\ Len(calls[c].dispatched) = 3
        /\ calls[c].handled[2][2] = 2

\* C2: after a non-2xx response, a call whose Fetcher has no error handler,
\* or whose handler returned undefined without retry() having been asked for,
\* is rejected with the HTTPError of that response (its status and body text)
\* and has made no further network call; without a handler it made exactly
\* one.
C2_NoRetryRejects ==
    \A c \in Calls : Started(c) =>
        /\ (~HasHook(c, "errorHandler") /\ calls[c].error[1] = "HTTPError"
              /\ calls[c].error[2].message = "HTTP error")
               => /\ calls[c].pc = "rejected"
                  /\ calls[c].result = calls[c].error
                  /\ calls[c].result[2].statusCode = calls[c].response.status
                  /\ calls[c].result[2].body = calls[c].response.body
                  /\ ~Is2xx(calls[c].response.status)
                  /\ Len(calls[c].dispatched) = 1
        /\ (calls[c].answers # << >>
              /\ calls[c].answers[Len(calls[c].answers)].result = "undefined"
              /\ ~calls[c].answers[Len(calls[c].answers)].requested)
               => /\ calls[c].pc = "rejected"
                  /\ calls[c].result[1] = "HTTPError"
                  /\ calls[c].result[2].statusCode = calls[c].response.status
                  /\ calls[c].result[2].body = calls[c].response.body
                  /\ Len(calls[c].dispatched) = Len(calls[c].answers)

C2_Witness ==
    \E c \in Calls :
        /\ Len(calls[c].answers) = 2
        /\ calls[c].answers[1].result = "RETRY"
        /\ calls[c].answers[2].result = "undefined"
        /\ ~calls[c].answers[2].requested
        /\ calls[c].pc = "rejected"
        /\ calls[c].result[1] = "HTTPError"
        /\ calls[c].result[2].statusCode = 500
        /\ calls[c].handled[1][1][2].statusCode = 300

\* C3: when the error handler throws, the call is rejected with that very
\* error, whatever the attempt and even if retry() was invoked before, and
\* no network call follows.
C3_HandlerThrowPropagates ==
    \A c \in Calls : \A i \in DOMAIN calls[c].answers :
        calls[c].answers[i].result = "throw"
            => /\ i = Len(calls[c].answers)
               /\ calls[c].pc = "rejected"
               /\ calls[c].result = calls[c].answers[i].thrown
               /\ Len(calls[c].dispatched) = i

C3_Witness ==
    \E c \in Calls :
        /\ Len(calls[c].answers) = 2
        /\ calls[c].answers[2].result = "throw"
        /\ calls[c].answers[2].requested
        /\ calls[c].answers[2].thrown[1] = "UserError"
        /\ calls[c].result[1] = "UserError"

\* C4: processResponse is invoked only for a 2xx response and at most once
\* per call, errorHandler only for non-2xx responses; a call resolves only on
\* a 2xx response, with what processResponse returned if the hook is
\* configured and with the raw response otherwise; after a 2xx response no
\* network call is made.
C4_SuccessPath ==
    \A c \in Calls : Started(c) =>
        /\ calls[c].responseHookCalls <= 1
        /\ calls[c].responseHookCalls = 1 => Is2xx(calls[c].response.status)
        /\ \A i \in DOMAIN calls[c].handled : ~Is2xx(calls[c].handled[i][1][2].statusCode)
        /\ calls[c].pc = "resolved"
               => /\ Is2xx(calls[c].response.status)
                  /\ IF HasHook(c, "processResponse")
                     THEN /\ calls[c].responseHookCalls = 1
                          /\ calls[c].hookResult # NoResult
                          /\ calls[c].result = <<"value", calls[c].hookResult>>
                     ELSE /\ calls[c].responseHookCalls = 0
                          /\ calls[c].result = <<"value", <<"response", calls[c].response>> >>
        /\ Is2xx(calls[c].response.status)
               => calls[c].pc \in {"processResponse", "resolved", "rejected"}

C4_Witness ==
    \E c \in Calls :
        /\ calls[c].pc = "resolved"
        /\ calls[c].responseHookCalls = 1
        /\ calls[c].response.status = 299
        /\ Len(calls[c].handled) = 2

C6_NoRetryBound ==
    \A c \in Calls :
        (/\ calls[c].attempt >= 1
         /\ HasHook(c, "errorHandler")
         /\ \A i \in DOMAIN calls[c].answers : AsksRetry(calls[c].answers[i]))
            => /\ Len(calls[c].dispatched) = Len(calls[c].answers) + 1
               /\ ~(calls[c].pc = "rejected" /\ calls[c].result[1] = "HTTPError")

C6_Witness ==
    \E c \in Calls :
        /\ calls[c].attempt = MaxAttempts
        /\ Len(calls[c].dispatched) = MaxAttempts
        /\ Len(calls[c].answers) = MaxAttempts - 1
        /\ \A i \in DOMAIN calls[c].answers : AsksRetry(calls[c].answers[i])

\* C7 as stated: the config of the Fetcher that override(fn) returns equals
\* fn(receiver's config).
C7_ChildConfigIsFnResult ==
    \A i \in DOMAIN overrides :
        /\ overrides[i].returned # overrides[i].receiver
        /\ Content(fetchers[overrides[i].returned]) = Content(overrides[i].config)

\* C7, amended: override(fn) returns a Fetcher distinct from the receiver whose
\* config is fn(receiver's config) laid over the defaults: it equals
\* fn(receiver's config) when that has a trailingSlash key, and is that with
\* trailingSlash: true added otherwise.
C7_ChildConfigOverDefaults ==
    \A i \in DOMAIN overrides :
        /\ overrides[i].returned # overrides[i].receiver
        /\ overrides[i].returned \in DOMAIN fetchers
        /\ Content(fetchers[overrides[i].returned]) =
               (IF Has(overrides[i].config, "trailingSlash")
                THEN Content(overrides[i].config)
                ELSE Content(SetKey(overrides[i].config, "trailingSlash", "true")))

C7_Witness ==
    \E i \in DOMAIN overrides :
        /\ overrides[i].fn = "onlyBaseUrl"
        /\ ~Has(overrides[i].config, "trailingSlash")
        /\ Get(fetchers[overrides[i].returned], "trailingSlash") = "true"
        /\ Get(fetchers[overrides[i].returned], "baseUrl") = UrlBase

\* C8: no step of fetch, of a verb shortcut or of override changes the config
\* of a Fetcher that exists: every Fetcher keeps the keys and values it got at
\* construction.
C8_ConfigNeverMutated ==
    [][\A f \in DOMAIN fetchers : f \in DOMAIN fetchers' /\ fetchers'[f] = fetchers[f]]_vars

C8_Witness ==
    /\ Len(overrides) >= 1
    /\ overrides[1].receiver = 1
    /\ overrides[1].fn = "setBaseUrl"
    /\ calls[1].this = 1
    /\ calls[1].attempt >= 2
    /\ Settled(calls[1])
    /\ ConfigGet(fetchers[1], "baseUrl", << >>) = UrlBase
    /\ ConfigGet(fetchers[2], "baseUrl", << >>) = UrlBase \o <<"/", "v", "2">>

\* merged holds, for every key of either level, the value of the call level
\* if the call level has the key and the value of the instance level otherwise
CallWins(merged, instance, call) ==
    /\ Keys(merged) = Keys(instance) \cup Keys(call)
    /\ \A k \in Keys(merged) :
           Get(merged, k) = (IF Has(call, k) THEN Get(call, k) ELSE Get(instance, k))

Assembled(c) ==
    /\ calls[c].processedPayload # << >>
    /\ calls[c].pc = "processPayload" \/ calls[c].payloadHookCalls = 0

\* C9: the merged headers and queryParams of a call hold, key by key, the
\* call-level value where the payload has the key and the instance-level value
\* otherwise; so do the fetchParams in the payload assembled for the network
\* call, except that its headers, body and method are the merged headers and
\* the body and method of the call.
C9_MergePrecedence ==
    \A c \in Calls : Started(c) =>
        /\ CallWins(calls[c].headers,
                    ConfigGet(ConfigOf(c), "headers", EmptyObj),
                    ConfigGet(calls[c].payload, "headers", EmptyObj))
        /\ CallWins(calls[c].queryParams,
                    ConfigGet(ConfigOf(c), "queryParams", EmptyObj),
                    ConfigGet(calls[c].payload, "queryParams", EmptyObj))
        /\ Assembled(c) =>
            /\ Keys(calls[c].processedPayload) =
                   Keys(ConfigGet(ConfigOf(c), "fetchParams", EmptyObj))
                       \cup Keys(ConfigGet(calls[c].payload, "fetchParams", EmptyObj))
                       \cup {"headers", "body", "method"}
            /\ \A k \in Keys(calls[c].processedPayload) :
                   Get(calls[c].processedPayload, k) =
                       (CASE k = "headers" -> calls[c].headers
                          [] k = "body" -> ConfigGet(calls[c].payload, "body", Undefined)
                          [] k = "method" -> ConfigGet(calls[c].payload, "method", Undefined)
                          [] OTHER ->
                                IF Has(ConfigGet(calls[c].payload, "fetchParams", EmptyObj), k)
                                THEN Get(ConfigGet(calls[c].payload, "fetchParams", EmptyObj), k)
                                ELSE Get(ConfigGet(ConfigOf(c), "fetchParams", EmptyObj), k))

C9_Witness ==
    \E c \in Calls :
        /\ calls[c].pc = "processPayload"
        /\ calls[c].headers = << <<"Accept", "xml">>, <<"Auth", "2">>, <<"Key", "s">> >>
        /\ Get(calls[c].queryParams, <<"k">>) = <<"number", 2>>
        /\ Has(calls[c].queryParams, <<"i">>)
        /\ Get(calls[c].processedPayload, "mode") = "no-cors"
        /\ Get(calls[c].processedPayload, "cache") = "no-store"
        /\ Get(calls[c].processedPayload, "method") = Method("PUT")
        /\ Get(calls[c].processedPayload, "body") = <<"object", "product">>
        /\ Get(calls[c].processedPayload, "headers") = calls[c].headers

\* what a call did and how it stands, its console lines left out
Observable(frame) == [frame EXCEPT !.log = << >>, !.this = 0]

DecodeQuery(query) == SearchParamsEntries(<<"?">> \o query)

\* the values a decoded query string holds under a name, in their order
ValuesOf(entries, name) ==
    [ i \in DOMAIN SelectSeq(entries, LAMBDA e : e[1] = name) |->
        SelectSeq(entries, LAMBDA e : e[1] = name)[i][2] ]

Skipped(value, options) ==
    value[1] = "undefined" \/ (value[1] = "null" /\ options.skipNull = "true")

\* C11: the query string encodeQueryParams returns holds no pair for a key
\* whose value is undefined, nor for a key whose value is null when skipNull
\* is true; null is emitted as "null" when skipNull is not true; a payload
\* whose values are all undefined encodes to the empty string.
C11_SkipsUndefinedAndNull ==
    \A n \in DOMAIN evals : evals[n].op = "encodeQueryParams" =>
        /\ (\A j \in DOMAIN evals[n].params : evals[n].params[j][2][1] = "undefined")
               => evals[n].result = Ok(<< >>)
        /\ IsOk(evals[n].result) =>
               \A j \in DOMAIN evals[n].params :
                   /\ Skipped(evals[n].params[j][2], evals[n].options)
                          => ValuesOf(DecodeQuery(evals[n].result[2]),
                                      evals[n].params[j][1]) = << >>
                   /\ (evals[n].params[j][2][1] = "null"
                          /\ evals[n].options.skipNull # "true")
                          => ValuesOf(DecodeQuery(evals[n].result[2]),
                                      evals[n].params[j][1]) = << <<"n", "u", "l", "l">> >>

C11_Witness ==
    \E n \in DOMAIN evals :
        /\ evals[n].op = "encodeQueryParams"
        /\ evals[n].params = << << <<"k">>, Undefined >>, << <<"j">>, Null >> >>
        /\ evals[n].options.skipNull = "false"
        /\ evals[n].result = Ok(<<"j", "=", "n", "u", "l", "l">>)

\* the user-supplied serializers followed by the five built-in ones
Consulted(options) == options.serializers \o <<"string", "number", "boolean", "null", "date">>

Matches(value, options) ==
    { i \in DOMAIN Consulted(options) : SerializerTest(Consulted(options)[i], value) }

FirstMatch(value, options) ==
    CHOOSE i \in Matches(value, options) : \A j \in Matches(value, options) : i <= j

ScalarsOnly(params) == \A j \in DOMAIN params : params[j][2][1] # "array"

\* C12: a scalar value that is not skipped is emitted as the output of the
\* first serializer whose test accepts it, the user-supplied serializers being
\* tried in their order before string, number, boolean, null and Date;
\* encodeQueryParams throws "No serializer found", returning nothing, exactly
\* when some such value is accepted by no serializer.
C12_FirstMatchingSerializer ==
    \A n \in DOMAIN evals :
        (evals[n].op = "encodeQueryParams" /\ ScalarsOnly(evals[n].params)) =>
            IF \E j \in DOMAIN evals[n].params :
                   /\ ~Skipped(evals[n].params[j][2], evals[n].options)
                   /\ Matches(evals[n].params[j][2], evals[n].options) = {}
            THEN evals[n].result = Throw("No serializer found")
            ELSE /\ IsOk(evals[n].result)
                 /\ \A j \in DOMAIN evals[n].params :
                        ~Skipped(evals[n].params[j][2], evals[n].options) =>
                            ValuesOf(DecodeQuery(evals[n].result[2]), evals[n].params[j][1]) =
                                << SerializerSerialize(
                                       Consulted(evals[n].options)
                                           [FirstMatch(evals[n].params[j][2], evals[n].options)],
                                       evals[n].params[j][2]) >>

C12_Witness ==
    \E n \in DOMAIN evals :
        /\ evals[n].op = "encodeQueryParams"
        /\ evals[n].options.serializers = <<"hexNumber", "numberHash">>
        /\ evals[n].params = << << <<"k">>, <<"number", 10>> >>, << <<"j">>, DateMorning >> >>
        /\ evals[n].result = Ok(<<"k", "=", "a", "&", "j", "=", "2", "0", "2", "4", "T",
                                   "1", "0", "%", "3", "A", "0", "0", "Z">>)

\* the call encodes one key whose value is an array
ArrayCall(e) ==
    /\ e.op = "encodeQueryParams"
    /\ Len(e.params) = 1
    /\ e.params[1][2][1] = "array"

\* the elements of the array that are not undefined
Defined(e) == SelectSeq(e.params[1][2][2], LAMBDA v : v[1] # "undefined")

\* every such element is accepted by some serializer
Serializable(e) == \A i \in DOMAIN Defined(e) : Matches(Defined(e)[i], e.options) # {}

\* the elements that are not undefined, serialized, in their order
SerializedElements(e) ==
    [ i \in DOMAIN Defined(e) |->
        SerializerSerialize(Consulted(e.options)[FirstMatch(Defined(e)[i], e.options)],
                            Defined(e)[i]) ]

FormatOf(e) == IF e.options.arrayFormat = "absent" THEN "repeat" ELSE e.options.arrayFormat

\* the pairs the three formats are to emit for key k
ExpectedPairs(e) ==
    CASE FormatOf(e) = "repeat" ->
            [ i \in DOMAIN SerializedElements(e) |-> <<e.params[1][1], SerializedElements(e)[i]>> ]
      [] FormatOf(e) = "comma" ->
            << <<e.params[1][1], Join(SerializedElements(e), ",")>> >>
      [] FormatOf(e) = "bracket" ->
            [ i \in DOMAIN SerializedElements(e) |->
                <<e.params[1][1] \o <<"[", "]">>, SerializedElements(e)[i]>> ]

KnownFormat(e) == FormatOf(e) \in {"repeat", "comma", "bracket"}

\* C13 as stated: an array value is emitted as the pairs of its format, and
\* with any other arrayFormat encodeQueryParams throws.
C13_ArrayFormats ==
    \A n \in DOMAIN evals : (ArrayCall(evals[n]) /\ Serializable(evals[n])) =>
        IF KnownFormat(evals[n])
        THEN /\ IsOk(evals[n].result)
             /\ SerializedElements(evals[n]) # << >>
                    => DecodeQuery(evals[n].result[2]) = ExpectedPairs(evals[n])
        ELSE evals[n].result = Throw("Unsupported arrayFormat")

\* C13, amended: an array value with at least one element that is not
\* undefined is emitted as the pairs of its format, and with any other
\* arrayFormat encodeQueryParams throws; an array that is empty or holds
\* undefined alone is skipped, whatever the arrayFormat.
C13_ArrayFormatsOfKeptElements ==
    \A n \in DOMAIN evals : (ArrayCall(evals[n]) /\ Serializable(evals[n])) =>
        IF SerializedElements(evals[n]) = << >>
        THEN evals[n].result = Ok(<< >>)
        ELSE IF KnownFormat(evals[n])
             THEN /\ IsOk(evals[n].result)
                  /\ DecodeQuery(evals[n].result[2]) = ExpectedPairs(evals[n])
             ELSE evals[n].result = Throw("Unsupported arrayFormat")

C13_Witness ==
    \E n \in DOMAIN evals :
        /\ evals[n].op = "encodeQueryParams"
        /\ evals[n].options.arrayFormat = "bracket"
        /\ evals[n].params = << << <<"k">>, <<"array", << <<"number", 10>>, Null >> >> >> >>
        /\ evals[n].result = Ok(<<"k", "%", "5", "B", "%", "5", "D", "=", "1", "0", "&",
                                   "k", "%", "5", "B", "%", "5", "D", "=", "n", "u", "l", "l">>)

\* the element list a reader recovers from the query string: the values of
\* the repeated key, or of key[], or the single value split on ","
Recovered(e) ==
    CASE FormatOf(e) = "repeat" -> ValuesOf(DecodeQuery(e.result[2]), e.params[1][1])
      [] FormatOf(e) = "bracket" ->
            ValuesOf(DecodeQuery(e.result[2]), e.params[1][1] \o <<"[", "]">>)
      [] FormatOf(e) = "comma" ->
            IF ValuesOf(DecodeQuery(e.result[2]), e.params[1][1]) = << >> THEN << >>
            ELSE Split(ValuesOf(DecodeQuery(e.result[2]), e.params[1][1])[1], ",")

\* C14: for every array payload and each of the formats repeat, comma and
\* bracket, decoding the query string recovers the serialized elements of the
\* array, in their order.
C14_ArrayRoundTrip ==
    \A n \in DOMAIN evals :
        (ArrayCall(evals[n]) /\ Serializable(evals[n]) /\ KnownFormat(evals[n])) =>
            /\ IsOk(evals[n].result)
            /\ Recovered(evals[n]) = SerializedElements(evals[n])

\* the names of a sequence of pairs, in their order
NamesOf(entries) == [ i \in DOMAIN entries |-> entries[i][1] ]

\* the call inserts a payload into a base URL that carries a query string
InsertCall(e) == e.op = "insertQueryParams" /\ e.payload.present

CarriesQuery(baseUrl) == extractQueryParams(baseUrl) # << >>

\* the query string of a URL the call returned
ResultQuery(e) == DecodeQuery(After(e.result[2], {"?"}))

\* C15: when baseUrl carries a query string, insertQueryParams returns
\* origin+path followed by the merged query: every key of the union once,
\* the existing keys in their position followed by the new keys in payload
\* order, each with the payload's value if the payload has the key and with
\* the existing value otherwise.
C15_MergesExistingQuery ==
    \A n \in DOMAIN evals :
        (InsertCall(evals[n]) /\ CarriesQuery(evals[n].baseUrl)) =>
            /\ IsOk(evals[n].result)
            /\ Before(evals[n].result[2], {"?"}) = UrlOriginAndPath(evals[n].baseUrl)
            /\ NamesOf(ResultQuery(evals[n])) =
                   NamesOf(Spread(extractQueryParams(evals[n].baseUrl), evals[n].payload.obj))
            /\ \A i \in DOMAIN ResultQuery(evals[n]) :
                   ResultQuery(evals[n])[i][2] =
                       (IF Has(evals[n].payload.obj, ResultQuery(evals[n])[i][1])
                        THEN SerializerSerialize(
                                 Consulted(evals[n].options)
                                     [FirstMatch(Get(evals[n].payload.obj,
                                                     ResultQuery(evals[n])[i][1]),
                                                 evals[n].options)],
                                 Get(evals[n].payload.obj, ResultQuery(evals[n])[i][1]))
                        ELSE Get(extractQueryParams(evals[n].baseUrl),
                                 ResultQuery(evals[n])[i][1]))

\* the payload is absent or encodes to the empty string
EncodesToNothing(e) ==
    ~e.payload.present \/ encodeQueryParams(e.payload.obj, e.options) = Ok(<< >>)

\* C16: insertQueryParams returns baseUrl as it is whenever the payload is
\* absent or encodes to the empty string, whether or not baseUrl carries a
\* query string.
C16_EmptyPayloadKeepsBaseUrl ==
    \A n \in DOMAIN evals :
        (evals[n].op = "insertQueryParams" /\ EncodesToNothing(evals[n])) =>
            evals[n].result = Ok(evals[n].baseUrl)

SepOf(e) == IF Has(e.options, "sep") THEN Get(e.options, "sep") ELSE "/"

\* trailingSlash true: given as true, or left to the default
TrailingSlashOn(e) ==
    ~Has(e.options, "trailingSlash") \/ Get(e.options, "trailingSlash") = "true"

\* C17: for every list of segments, the result of urlJoin ends with the
\* separator when trailingSlash is true (the default) and does not end with it
\* when trailingSlash is false.
C17_TrailingSeparatorEnforced ==
    \A i \in DOMAIN evals :
        evals[i].op = "urlJoin" =>
            (EndsWith(evals[i].result, SepOf(evals[i])) <=> TrailingSlashOn(evals[i]))

\* the half of C17 that the code keeps: with trailingSlash true the result
\* ends with the separator
C17_TrailingSeparatorPresent ==
    \A i \in DOMAIN evals :
        (evals[i].op = "urlJoin" /\ TrailingSlashOn(evals[i])) =>
            EndsWith(evals[i].result, SepOf(evals[i]))

\* C18: urlJoin([urlJoin([a, b]), c]) equals urlJoin([a, b, c]) for all
\* segments a, b and c, empty segments and segments made only of separators
\* included.
C18_Associative ==
    \A i \in DOMAIN evals :
        evals[i].op = "urlJoinNested" => evals[i].nested = evals[i].flat

PathCall(e) == e.op = "generatePath"

Placeholder(segment) == segment \in RequiredSegments \cup OptionalSegments

\* the name of a placeholder segment: what stands between ":" and the "?"
NameOfSegment(segment) ==
    SubSeq(segment, 2, IF segment \in OptionalSegments THEN Len(segment) - 1 ELSE Len(segment))

ParamOfSegment(e, segment) ==
    IF Has(e.params, NameOfSegment(segment))
    THEN Get(e.params, NameOfSegment(segment))
    ELSE Undefined

\* the param of the segment is null or absent
WithoutParam(e, segment) == ParamOfSegment(e, segment)[1] \in {"null", "undefined"}

\* the required placeholders of the template whose param is null or absent
MissingRequired(e) ==
    { i \in DOMAIN e.segments :
        e.segments[i] \in RequiredSegments /\ WithoutParam(e, e.segments[i]) }

TextOfParam(p) ==
    CASE p[1] = "number" -> NumToStr(p[2])
      [] p[1] = "string" -> p[2]
      [] OTHER -> << >>

\* what a segment of the template becomes: a placeholder its stringified param
\* (nothing without one), a static segment itself, without its optional marker
Replaced(e, segment) ==
    IF Placeholder(segment) THEN TextOfParam(ParamOfSegment(e, segment))
    ELSE IF segment = <<"b", "?">> THEN <<"b">>
    ELSE segment

ReplacedSegments(e) == [ i \in DOMAIN e.segments |-> Replaced(e, e.segments[i]) ]

ExpectedPath(e) ==
    (IF Len(e.path) > 0 /\ e.path[1] = "/" THEN <<"/">> ELSE << >>)
        \o Join(SelectSeq(ReplacedSegments(e), LAMBDA t : t # << >>), "/")

RoutesCall(e) == e.op = "routes"

RECURSIVE NodesUnder(_, _, _, _)
\* the nodes among the first n entries of obj and below them, each with its
\* chain of keys (root first), its parent's absolute path and its own path
NodesUnder(obj, chain, parentAbs, n) ==
    IF n = 0 THEN << >>
    ELSE NodesUnder(obj, chain, parentAbs, n - 1)
         \o << [chain |-> Append(chain, obj[n][1]), parentAbs |-> parentAbs,
                 own |-> obj[n][2].path] >>
         \o NodesUnder(obj[n][2].children, Append(chain, obj[n][1]),
                       urlJoinWith(<<parentAbs, obj[n][2].path>>, EmptyObj),
                       Len(obj[n][2].children))

NodesOfTree(e) == NodesUnder(e.hierarchy, << >>, << >>, Len(e.hierarchy))

ChainKey(chain) == Join(chain, "_")

\* the entry the claim describes for a node
EntryOfNode(node) ==
    [str |-> urlJoinWith(<<node.parentAbs, node.own>>, EmptyObj),
     path |-> urlJoinWith(<<node.parentAbs, node.own>>, EmptyObj),
     key |-> ChainKey(node.chain),
     parentKey |-> ChainKey(SubSeq(node.chain, 1, Len(node.chain) - 1))]

\* result holds one entry per node of nodes, each under the chain of its node
OneEntryPerNode(result, nodes) ==
    /\ Len(result) = Len(nodes)
    /\ \A j \in DOMAIN nodes :
           /\ Has(result, ChainKey(nodes[j].chain))
           /\ Get(result, ChainKey(nodes[j].chain)) = EntryOfNode(nodes[j])

\* C20: routes(tree) returns a flat map with exactly one entry per node of the
\* tree, leaf or internal; the entry of a node is stored under the
\* underscore-joined chain of its ancestors' keys and its own (root first), its
\* string value and its path are urlJoin of the parent's absolute path and the
\* node's own path, its key is that chain and its parentKey the parent's chain,
\* empty at the root.
C20_OneEntryPerNode ==
    \A i \in DOMAIN evals :
        RoutesCall(evals[i]) => OneEntryPerNode(evals[i].result, NodesOfTree(evals[i]))

\* no two nodes of the tree have the same underscore-joined chain
DistinctChains(nodes) ==
    \A j \in DOMAIN nodes, k \in DOMAIN nodes :
        ChainKey(nodes[j].chain) = ChainKey(nodes[k].chain) => j = k

\* what the code keeps of C20: one entry per node in the trees whose nodes have
\* distinct chains
C20_OneEntryPerDistinctChain ==
    \A i \in DOMAIN evals :
        (RoutesCall(evals[i]) /\ DistinctChains(NodesOfTree(evals[i]))) =>
            OneEntryPerNode(evals[i].result, NodesOfTree(evals[i]))

\* a URL that `new URL(u)` cannot parse without a base
RelativeUrl(u) == HasPrefix(u, <<"/">>)

\* C30: insertQueryParams throws instead of returning a URL whenever a payload
\* object is supplied (an empty one included) and baseUrl is a relative URL
\* that carries at least one query parameter, although extractQueryParams
\* accepts that URL and returns its parameters.
C30_RelativeUrlWithQueryThrows ==
    \A n \in DOMAIN evals :
        (InsertCall(evals[n]) /\ RelativeUrl(evals[n].baseUrl)
            /\ Len(UrlSearch(evals[n].baseUrl)) > 0) =>
            /\ evals[n].result = Throw("Invalid URL")
            /\ Len(extractQueryParams(evals[n].baseUrl)) > 0

\* insertQueryParams has been called with an empty payload object on a
\* relative URL that carries a query parameter
C30_Witness ==
    \E n \in DOMAIN evals :
        /\ InsertCall(evals[n])
        /\ evals[n].payload.obj = EmptyObj
        /\ evals[n].baseUrl = UrlRelQuery
        /\ ~IsOk(evals[n].result)

\* C29: invoking retry() is by itself a request for retry: when the handler
\* of attempt i returned a value other than the RETRY flag (undefined) and
\* retry() had been invoked since the attempt began, attempt i + 1 is
\* dispatched and the call is not rejected with the HTTPError of attempt i.
C29_RetryCallbackSuffices ==
    \A c \in Calls : \A i \in DOMAIN calls[c].answers :
        (calls[c].answers[i].result = "undefined" /\ calls[c].answers[i].requested) =>
            /\ Len(calls[c].dispatched) >= i + 1
            /\ calls[c].dispatched[i + 1] = calls[c].dispatched[i]
            /\ (calls[c].pc = "rejected" /\ Len(calls[c].answers) = i) =>
                   calls[c].result # calls[c].handled[i][1]

\* the handler of the first attempt invoked retry() (no callback of an earlier
\* attempt exists) and returned undefined, and the second attempt is under way
C29_Witness ==
    \E c \in Calls :
        /\ Len(calls[c].answers) = 1
        /\ calls[c].answers[1].result = "undefined"
        /\ calls[c].answers[1].requested
        /\ calls[c].attempt = 2
        /\ calls[c].pc = "fetch"

\* C28: a retry() callback invoked after the handler invocation it was handed
\* to has returned causes no additional attempt: where no handler invokes
\* retry() while it runs, every attempt after the first follows a handler
\* invocation that returned the RETRY flag.
C28_LateRetryCausesNoAttempt ==
    \A c \in Calls : \A i \in 1..(Len(calls[c].dispatched) - 1) :
        calls[c].answers[i].result = "RETRY"

\* the network call of the current attempt is pending
InFlight(c) == calls[c].pc = "fetch"

\* C25: the round trips of one call are made one at a time.  Every network
\* call made so far belongs to one attempt; while the call reads a body or
\* runs its handler no network call is pending and the attempt is not yet
\* answered; and when attempt k + 1 is in flight, the response of attempt k has
\* arrived, its body text is in the HTTPError built from it, and the handler
\* invocation for attempt k has been made with that error and has completed.
C25_OneRoundTripAtATime ==
    \A c \in Calls :
        /\ Len(calls[c].dispatched) = calls[c].attempt
        /\ calls[c].pc \in {"text", "errorHandler"} =>
               Len(calls[c].answers) = calls[c].attempt - 1
        /\ (InFlight(c) /\ calls[c].attempt >= 2) =>
               /\ ~Is2xx(calls[c].response.status)
               /\ calls[c].error[2].statusCode = calls[c].response.status
               /\ calls[c].error[2].body = calls[c].response.body
               /\ Len(calls[c].handled) = calls[c].attempt - 1
               /\ Len(calls[c].answers) = calls[c].attempt - 1
               /\ calls[c].handled[calls[c].attempt - 1] =
                      <<calls[c].error, calls[c].attempt - 1>>

\* the third attempt is in flight after two completed round trips
C25_Witness ==
    \E c \in Calls :
        /\ InFlight(c)
        /\ calls[c].attempt = 3
        /\ Len(calls[c].answers) = 2
        /\ calls[c].response.status = 500

\* C27: if everything the call awaits completes and the handler asks for a
\* retry finitely often, a call of fetch that has started settles: it is
\* resolved with a result or rejected with an error.
C27_EventuallySettles == Started(1) ~> Settled(calls[1])

\* the call has settled after as many attempts as a handler may ask for
C27_Witness ==
    /\ Settled(calls[1])
    /\ calls[1].attempt = MaxAttempts
    /\ Len(calls[1].answers) = MaxAttempts

\* C26: with two calls of fetch interleaved on one Fetcher, each call counts
\* its own attempts and decides its own retries: its handler is given the
\* attempt numbers 1, 2, 3, ... of its own network calls, it has made as many
\* network calls as its own counter says, and it makes one more network call
\* exactly when its own handler invocation asked for one, whatever the other
\* call does meanwhile.
C26_AttemptAndRetryPrivate ==
    \A c \in Calls :
        /\ Len(calls[c].dispatched) = calls[c].attempt
        /\ \A i \in DOMAIN calls[c].handled :
               /\ calls[c].handled[i][2] = i
               /\ Len(calls[c].dispatched) >= i
        /\ Len(calls[c].dispatched) <= Len(calls[c].answers) + 1
        /\ \A i \in DOMAIN calls[c].answers :
               /\ AsksRetry(calls[c].answers[i]) => Len(calls[c].dispatched) > i
               /\ Len(calls[c].dispatched) > i => AsksRetry(calls[c].answers[i])

\* both calls are in flight on the same Fetcher, at different attempts
C26_Witness ==
    /\ calls[1].this = calls[2].this
    /\ calls[1].pc = "errorHandler" /\ calls[1].attempt = 3
    /\ calls[2].pc = "errorHandler" /\ calls[2].attempt = 1
    /\ Len(calls[1].answers) = 2 /\ Len(calls[2].answers) = 0

\* the names of the hooks invoked and of the calls of fetch made, in order
EventNames(r) == [ i \in DOMAIN r.events |-> r.events[i].name ]

\* what an invocation with the hooks object h does, in order
ExpectedOrder(h) ==
    (IF h.beforeRequest THEN <<"beforeRequest">> ELSE << >>)
        \o <<"fetch">>
        \o (IF h.onResponse THEN <<"onResponse">> ELSE << >>)

FetchCalled(r) == \E i \in DOMAIN r.events : r.events[i].name = "fetch"

\* C21: an invocation of a built callable invokes beforeRequest (if set), then
\* fetch, then onResponse (if set), each at most once.  fetch is not called
\* while beforeRequest is pending, and it is given the URL of the callable and
\* the payload beforeRequest returned (the assembled payload without the
\* hook).  onResponse is invoked only once fetch has resolved, with its
\* result; the callable resolves with what onResponse returned, or with the
\* result of fetch when no onResponse is set.
C21_FixedOrder ==
    /\ HasPrefix(ExpectedOrder(request.hooks), EventNames(request))
    /\ request.pc = "beforeRequest" =>
           /\ calls[1].pc = "idle"
           /\ request.events[1].payload = FetcherPayload(request, request.payload)
    /\ FetchCalled(request) =>
           /\ calls[1].pc # "idle"
           /\ calls[1].url = request.fetchUrl
           /\ IF request.hooks.beforeRequest
              THEN /\ request.returned # << >>
                   /\ request.returned[1] = <<"beforeRequest", calls[1].payload>>
              ELSE calls[1].payload = FetcherPayload(request, request.payload)
    /\ request.pc \in {"onResponse", "resolved"} => calls[1].pc = "resolved"
    /\ request.pc = "onResponse" =>
           request.events[Len(request.events)] =
               Event("onResponse", request.hooks.id, << >>, calls[1].result)
    /\ request.pc = "resolved" =>
           /\ EventNames(request) = ExpectedOrder(request.hooks)
           /\ IF request.hooks.onResponse
              THEN /\ request.returned # << >>
                   /\ request.returned[Len(request.returned)][1] = "onResponse"
                   /\ request.result =
                          <<"value", request.returned[Len(request.returned)][2]>>
              ELSE request.result = calls[1].result

\* both hooks are set, beforeRequest returned a payload it changed, fetch got
\* that payload, and the callable resolved with what onResponse returned
C21_Witness ==
    /\ request.pc = "resolved"
    /\ EventNames(request) = <<"beforeRequest", "fetch", "onResponse">>
    /\ request.returned[1][2] # request.events[1].payload
    /\ calls[1].payload = request.returned[1][2]
    /\ request.result # calls[1].result

\* the callable has been invoked and generatePath, if called, did not throw
Handed(r) == r.pc \notin {"idle"} /\ r.events # << >>

\* C22: the query params the callable hands on have the keys of the defaults
\* and of the call's queryParams, each with the call's value if the call gives
\* one and with the default otherwise.  With pathParams() declared the URL is
\* the template with its placeholders interpolated ('p/:id' with id 10 is
\* 'p/10'), a missing param rejecting the callable before anything is called;
\* without it the URL is the template as it is, whatever the call's
\* pathParams.
C22_MergeAndInterpolate ==
    /\ Handed(request) =>
           LET merged == Get(request.fetcherPayload, "queryParams")
               defaults == request.defaultQueryParams.obj
               supplied == request.payload.queryParams.obj
           IN  /\ Keys(merged) = Keys(defaults) \cup Keys(supplied)
               /\ \A k \in Keys(supplied) : Get(merged, k) = Get(supplied, k)
               /\ \A k \in Keys(defaults) \ Keys(supplied) : Get(merged, k) = Get(defaults, k)
    /\ request.pc # "idle" =>
           IF ~request.withPathParams
           THEN /\ Handed(request)
                /\ request.fetchUrl = request.url
           ELSE IF request.url = <<"p">>
           THEN /\ Handed(request)
                /\ request.fetchUrl = <<"p">>
           ELSE IF request.payload.pathParams.present
           THEN /\ Handed(request)
                /\ request.fetchUrl = <<"p", "/", "1", "0">>
           ELSE /\ request.pc = "rejected"
                /\ request.result[1] = "Error"
                /\ request.events = << >>
                /\ calls[1].pc = "idle"

\* defaults k and j, the call gives k and m, pathParams() was declared
C22_Witness ==
    /\ request.pc = "fetch"
    /\ request.withPathParams
    /\ request.fetchUrl = <<"p", "/", "1", "0">>
    /\ Get(request.fetcherPayload, "queryParams") =
           << << <<"k">>, <<"number", 2>> >>, << <<"j">>, <<"number", 1>> >>,
              << <<"m">>, <<"number", 2>> >> >>

\* what the call of fetch has done on the network and with the error handler
Effects(frame) ==
    [dispatched |-> frame.dispatched, handled |-> frame.handled, answers |-> frame.answers]

\* C24: a step in which processPayload, processResponse, beforeRequest or
\* onResponse throws (the hook was pending and the call or the callable is
\* rejected) rejects with the error the hook threw, makes no network call and
\* does not invoke or consult the error handler; when processPayload or
\* beforeRequest throws, no network call has been made, and with beforeRequest
\* fetch has not been called.  The callable is rejected with the very error
\* its call of fetch is rejected with.
C24_HookThrowStep ==
    /\ (calls[1].pc = "processPayload" /\ calls'[1].pc = "rejected") =>
           /\ calls'[1].result \in HookErrors
           /\ Effects(calls'[1]) = Effects(IdleCall)
    /\ (calls[1].pc = "processResponse" /\ calls'[1].pc = "rejected") =>
           /\ calls'[1].result \in HookErrors
           /\ Effects(calls'[1]) = Effects(calls[1])
    /\ (request.pc = "beforeRequest" /\ request'.pc = "rejected") =>
           /\ request'.result \in HookErrors
           /\ request'.events = request.events
           /\ calls'[1] = IdleCall
    /\ (request.pc = "onResponse" /\ request'.pc = "rejected") =>
           /\ request'.result \in HookErrors
           /\ request'.events = request.events
           /\ calls'[1] = calls[1]
    /\ (request.pc = "fetch" /\ request'.pc = "rejected") =>
           /\ calls[1].pc = "rejected"
           /\ request'.result = calls[1].result
           /\ request'.events = request.events
           /\ calls'[1] = calls[1]
    /\ (Settled(calls[1]) => calls'[1] = calls[1])
    /\ (Settled(request) => request' = request)

C24_HooksPropagate == [][C24_HookThrowStep]_vars

\* processPayload threw on a call made by the callable: nothing was sent and
\* the caller of the callable got the error
C24_Witness ==
    /\ request.pc = "rejected"
    /\ request.result \in HookErrors
    /\ calls[1].pc = "rejected"
    /\ calls[1].payloadHookCalls = 1
    /\ calls[1].dispatched = << >>
    /\ EventNames(request) = <<"beforeRequest", "fetch">>

\* C23: an invocation of the callable behaves as the builder was when build()
\* was called, whatever chain methods were called on the builder since: the
\* URL is interpolated if and only if pathParams() had been declared by then,
\* the defaults merged are those queryParams() had been given by then, and
\* the hooks invoked are those of the hooks object set by then.
C23_BuildFreezes ==
    request.pc # "idle" =>
        /\ IF request.atBuild.withPathParams
           THEN IF IsOk(generatePath(request.url, request.payload.pathParams.obj))
                THEN /\ Handed(request)
                     /\ request.fetchUrl =
                            generatePath(request.url, request.payload.pathParams.obj)[2]
                ELSE request.pc = "rejected" /\ request.events = << >>
           ELSE Handed(request) /\ request.fetchUrl = request.url
        /\ Handed(request) =>
               /\ request.events[1].payload[2] =
                      <<"queryParams", Spread(request.atBuild.defaultQueryParams.obj,
                                              request.payload.queryParams.obj)>>
               /\ HasPrefix(ExpectedOrder(request.atBuild.hooks), EventNames(request))
               /\ \A i \in DOMAIN request.events :
                      request.events[i].name # "fetch" =>
                          request.events[i].hooks = request.atBuild.hooks.id
               /\ request.pc = "resolved" =>
                      EventNames(request) = ExpectedOrder(request.atBuild.hooks)

TypeOK ==
    /\ \A c \in Calls : calls[c].attempt \in 0..MaxAttempts
    /\ DOMAIN fetchers = 1..Cardinality(DOMAIN fetchers)

====
